---------------------------- MODULE Spec2Model ----------------------------
(***************************************************************************)
(* A model of the tagged-types crates.                                     *)
(*                                                                         *)
(*  - the derive macro `Tag` (derive/src/lib.rs): a declaration's          *)
(*    attributes are turned into marker-trait grants or compile errors;    *)
(*  - the marker traits and the blanket implementations of Permissive      *)
(*    (lib/src/traits.rs, lib/src/traits/cmp.rs,                           *)
(*    lib/src/traits/permissive.rs);                                       *)
(*  - TaggedType<V, T> and its conditional implementations                 *)
(*    (lib/src/tagged_type.rs, lib/src/tagged_type/cmp.rs,                 *)
(*    lib/src/tagged_type/serde.rs).                                       *)
(*                                                                         *)
(* Four specifications share the variables:                                *)
(*    Spec      one expansion of #[derive(Tag)] on one declaration;        *)
(*    SpecGate  the trait resolution of TaggedType<V, T> for one tag;      *)
(*    SpecOps   a program that builds and uses wrappers of two tags;       *)
(*    SpecText  a program that parses, formats, serializes and             *)
(*              deserializes wrappers.                                     *)
(***************************************************************************)
EXTENDS Integers, Sequences, FiniteSets, TLC

VARIABLES
    ident,      \* derive.ident: the name of the tag type being derived
    attrs,      \* derive.attrs: the attributes written on the tag, in order
    out,        \* the token stream derive_tag builds, as a sequence of items
    pc,         \* the position of derive_tag
    granted,    \* the markers implemented for the tag: impl M for Tag {}
    vtype,      \* the value type V of TaggedType<V, Tag>
    avail,      \* the behaviours the compiler resolves on TaggedType<V, Tag>
    gpc,        \* "declare" while impls are written, "resolved" after
    tagImpls,   \* the program's tags and the markers implemented for each
    ws,         \* the program's wrapper bindings: slot -> wrapper or None
    refs,       \* slot -> the bindings its wrapper holds references into
    last        \* the last operation: its name and the tags it involved

deriveVars == <<ident, attrs, out, pc>>

gateVars == <<granted, vtype, avail, gpc>>

opsVars == <<tagImpls, ws, refs, last>>

vars == <<ident, attrs, out, pc, granted, vtype, avail, gpc, tagImpls, ws, refs, last>>

(***************************************************************************)
(* Bounds of the declarations that are expanded.                           *)
(***************************************************************************)
MaxAttrs == 2
MaxItems == 2
MaxTotalItems == 2

\* Bound of the impls written by hand for one tag.
MaxGrants == 4

\* Width in bits of the unsigned integers the wrappers hold.
ValueBits == 2

(***************************************************************************)
(* The names the three lists recognize.                                    *)
(***************************************************************************)
\* The implement list taking Display as well.
ImplementNames_with_Display ==
    {"Default", "Clone", "Copy", "PartialEq", "Eq", "PartialOrd", "Ord",
     "Hash", "Deref", "Add", "Sub", "Mul", "Div", "Display"}

ImplementNames ==
    {"Default", "Clone", "Copy", "PartialEq", "Eq", "PartialOrd", "Ord",
     "Hash", "Deref", "Add", "Sub", "Mul", "Div"}

TransparentNames == {"Display", "Debug", "FromStr", "Serialize", "Deserialize"}

CapabilityNames == {"inner_access", "from_inner", "value_map", "cloned", "as_ref"}

\* The capability table with cloned taken for the Clone implementation.
CapabilityTrait_cloned_as_clone(v) ==
    CASE v = "inner_access" -> "InnerAccess"
      [] v = "from_inner"   -> "FromInner"
      [] v = "value_map"    -> "ValueMap"
      [] v = "cloned"       -> "ImplementClone"
      [] v = "as_ref"       -> "AsRef"

\* The marker each capability name stands for.
CapabilityTrait(v) ==
    CASE v = "inner_access" -> "InnerAccess"
      [] v = "from_inner"   -> "FromInner"
      [] v = "value_map"    -> "ValueMap"
      [] v = "cloned"       -> "Cloned"
      [] v = "as_ref"       -> "AsRef"

ListKinds == {"capability", "implement", "transparent"}

\* The names the lists recognize and Foo, a name no list recognizes.
AllNames == ImplementNames \cup TransparentNames \cup CapabilityNames \cup {"Foo"}

\* The names the longer declarations are written with: one of each list and
\* one that no list knows.
SampleNames == {"Clone", "Display", "inner_access", "Foo"}

TagNames == {"HostTag", "PortTag"}

(***************************************************************************)
(* Items of the token stream.                                              *)
(***************************************************************************)
\* quote! { impl #tt::#trait_name for #name {} }
Impl(trait, name) == [kind |-> "impl", text |-> trait, ty |-> name]

\* compile_error!(msg), or syn::Error::into_compile_error()
CompileError(msg) == [kind |-> "compile_error", text |-> msg, ty |-> ""]

\* An attribute #[name(items...)]; permissive and doc carry no list.
Attr(name, items) == [name |-> name, items |-> items]

\* find_attr looking at the first attribute of the declaration only.
find_attr_first_only(as, attr_name) ==
    IF Len(as) > 0 /\ as[1].name = attr_name THEN 1 ELSE 0

(***************************************************************************)
(* find_attr: the first attribute whose path is attr_name (its index), or  *)
(* 0 for None.                                                             *)
(***************************************************************************)
find_attr(as, attr_name) ==
    IF \E i \in 1..Len(as) : as[i].name = attr_name
    THEN CHOOSE i \in 1..Len(as) :
            /\ as[i].name = attr_name
            /\ \A j \in 1..(i - 1) : as[j].name # attr_name
    ELSE 0

(***************************************************************************)
(* The closures handed to parse_nested_meta: Ok with the grant, or Err     *)
(* with the message.                                                       *)
(***************************************************************************)
Ok(item) == [ok |-> TRUE, item |-> item]
Err(msg) == [ok |-> FALSE, item |-> CompileError(msg)]

capability_logic(v, name) ==
    IF v \in CapabilityNames
    THEN Ok(Impl(CapabilityTrait(v), name))
    ELSE Err("Don't know capability: " \o v)

implement_logic(v, name) ==
    IF v \in ImplementNames
    THEN Ok(Impl("Implement" \o v, name))
    ELSE Err("Don't know how to implement: " \o v)

transparent_logic(v, name) ==
    IF v \in TransparentNames
    THEN Ok(Impl("Transparent" \o v, name))
    ELSE Err("Don't know how to make " \o v \o " transparent")

logic(kind, v, name) ==
    CASE kind = "capability"  -> capability_logic(v, name)
      [] kind = "implement"   -> implement_logic(v, name)
      [] kind = "transparent" -> transparent_logic(v, name)

\* The parse going on after an Err, reporting every unrecognized name.
RECURSIVE parse_nested_meta_continue(_, _, _, _)
parse_nested_meta_continue(kind, items, name, o) ==
    IF items = <<>>
    THEN o
    ELSE parse_nested_meta_continue(kind, Tail(items), name,
                                    Append(o, logic(kind, Head(items), name).item))

\* The handler dropping the Err of the parse instead of emitting it.
RECURSIVE parse_nested_meta_swallow(_, _, _, _)
parse_nested_meta_swallow(kind, items, name, o) ==
    IF items = <<>>
    THEN o
    ELSE LET r == logic(kind, Head(items), name)
         IN  IF r.ok
             THEN parse_nested_meta_swallow(kind, Tail(items), name, Append(o, r.item))
             ELSE o

\* The parse passing over a name that the stream already holds a grant for.
RECURSIVE parse_nested_meta_dedup(_, _, _, _)
parse_nested_meta_dedup(kind, items, name, o) ==
    IF items = <<>>
    THEN o
    ELSE LET r == logic(kind, Head(items), name)
         IN  IF r.ok
             THEN parse_nested_meta_dedup(kind, Tail(items), name,
                     IF \E i \in 1..Len(o) : o[i] = r.item THEN o ELSE Append(o, r.item))
             ELSE Append(o, r.item)

(***************************************************************************)
(* parse_nested_meta with the handler's match on its result: the closure   *)
(* runs on the items from left to right and extends the stream; the first  *)
(* Err ends the parse, and the handler appends it as a compile error.      *)
(***************************************************************************)
RECURSIVE parse_nested_meta(_, _, _, _)
parse_nested_meta(kind, items, name, o) ==
    IF items = <<>>
    THEN o
    ELSE LET r == logic(kind, Head(items), name)
         IN  IF r.ok
             THEN parse_nested_meta(kind, Tail(items), name, Append(o, r.item))
             ELSE Append(o, r.item)

\* handle_capability: the stream after it.
handle_capability(as, name, o) ==
    LET i == find_attr(as, "capability")
    IN  IF i = 0 THEN o ELSE parse_nested_meta("capability", as[i].items, name, o)

\* handle_implement: the stream after it.
handle_implement(as, name, o) ==
    LET i == find_attr(as, "implement")
    IN  IF i = 0 THEN o ELSE parse_nested_meta("implement", as[i].items, name, o)

\* handle_transparent: the stream after it.
handle_transparent(as, name, o) ==
    LET i == find_attr(as, "transparent")
    IN  IF i = 0 THEN o ELSE parse_nested_meta("transparent", as[i].items, name, o)

PermissiveMessage == "permissive must be the only attribute in derive"

\* handle_permissive returning false after the error, so that the lists
\* are processed all the same.
handle_permissive_continue(as, name, o) ==
    IF find_attr(as, "permissive") = 0
    THEN [out |-> o, ret |-> FALSE]
    ELSE IF Len(as) > 1
         THEN [out |-> Append(o, CompileError("permissive must be the only attribute in derive")),
               ret |-> FALSE]
         ELSE [out |-> Append(o, Impl("Permissive", name)), ret |-> TRUE]

\* handle_permissive: the stream after it and the value it returns.
handle_permissive(as, name, o) ==
    IF find_attr(as, "permissive") = 0
    THEN [out |-> o, ret |-> FALSE]
    ELSE IF Len(as) > 1
         THEN [out |-> Append(o, CompileError(PermissiveMessage)), ret |-> TRUE]
         ELSE [out |-> Append(o, Impl("Permissive", name)), ret |-> TRUE]

\* derive_tag: the token stream of a declaration, the handlers run in the
\* order of the source.
derive_tag(as, name) ==
    LET p == handle_permissive(as, name, <<>>)
    IN  IF p.ret
        THEN p.out
        ELSE handle_transparent(as, name,
                 handle_implement(as, name,
                     handle_capability(as, name, p.out)))

(***************************************************************************)
(* The declarations that are expanded.                                     *)
(***************************************************************************)
ItemLists(names, n) == UNION {[1..k -> names] : k \in 0..n}

\* The attributes whose list has at most n items.
AttrsWithin(n) ==
    {Attr(k, l) : k \in ListKinds, l \in ItemLists(SampleNames, IF n < MaxItems THEN n ELSE MaxItems)}
        \cup {Attr("permissive", <<>>), Attr("doc", <<>>)}

RECURSIVE AttrSeqs(_, _)
AttrSeqs(n, budget) ==
    IF n = 0
    THEN {<<>>}
    ELSE {<<>>} \cup
         UNION {{<<a>> \o rest : rest \in AttrSeqs(n - 1, budget - Len(a.items))} :
                   a \in AttrsWithin(budget)}

\* One list with one name, for every list and every name.
SingleNameDecls == {<<Attr(k, <<v>>)>> : k \in ListKinds, v \in AllNames}

(***************************************************************************)
(* derive_tag                                                              *)
(***************************************************************************)
InitDerive ==
    /\ ident \in TagNames
    /\ attrs \in AttrSeqs(MaxAttrs, MaxTotalItems) \cup SingleNameDecls
    /\ out = <<>>
    /\ pc = "permissive"
    /\ granted = {}
    /\ vtype = "u64"
    /\ avail = {}
    /\ gpc = "idle"
    /\ tagImpls = <<>>
    /\ ws = <<>>
    /\ refs = <<>>
    /\ last = <<>>

HandlePermissive ==
    /\ pc = "permissive"
    /\ LET r == handle_permissive(attrs, ident, out)
       IN  /\ out' = r.out
           /\ pc' = IF r.ret THEN "done" ELSE "capability"
    /\ UNCHANGED <<ident, attrs>>
    /\ UNCHANGED <<gateVars, opsVars>>

HandleCapability ==
    /\ pc = "capability"
    /\ out' = handle_capability(attrs, ident, out)
    /\ pc' = "implement"
    /\ UNCHANGED <<ident, attrs>>
    /\ UNCHANGED <<gateVars, opsVars>>

HandleImplement ==
    /\ pc = "implement"
    /\ out' = handle_implement(attrs, ident, out)
    /\ pc' = "transparent"
    /\ UNCHANGED <<ident, attrs>>
    /\ UNCHANGED <<gateVars, opsVars>>

HandleTransparent ==
    /\ pc = "transparent"
    /\ out' = handle_transparent(attrs, ident, out)
    /\ pc' = "done"
    /\ UNCHANGED <<ident, attrs>>
    /\ UNCHANGED <<gateVars, opsVars>>

NextDerive ==
    \/ HandlePermissive
    \/ HandleCapability
    \/ HandleImplement
    \/ HandleTransparent

Spec == InitDerive /\ [][NextDerive]_vars

(***************************************************************************)
(* The marker traits.  The crate features provide_permissive,              *)
(* support_serde and provide_derive are taken as enabled.                  *)
(***************************************************************************)
\* lib/src/traits.rs
TraitsMarkers ==
    {"InnerAccess", "Cloned", "ValueMap", "ImplementDeref", "ImplementDefault",
     "TransparentDebug", "TransparentDisplay", "ImplementClone", "ImplementCopy",
     "ImplementHash", "TransparentFromStr", "FromInner", "TransparentFromInner",
     "ImplementAdd", "ImplementSub", "ImplementMul", "ImplementDiv"}

\* lib/src/traits/cmp.rs
CmpMarkers == {"ImplementPartialEq", "ImplementEq", "ImplementPartialOrd", "ImplementOrd"}

\* lib/src/traits/serde.rs, as tagged_type/serde.rs uses it
SerdeMarkers == {"TransparentSerialize", "TransparentDeserialize"}

\* crate::AsRef, as tagged_type.rs uses it
AsRefMarkers == {"AsRef"}

Markers ==
    TraitsMarkers \cup CmpMarkers \cup SerdeMarkers \cup AsRefMarkers \cup {"Permissive"}

\* The blanket implementations with one more, for a helper trait that is
\* no marker of a behaviour.
PermissiveBlanket_with_helper ==
    {"InnerAccess", "ImplementCopy", "ImplementClone", "ImplementDefault",
     "ImplementPartialEq", "ImplementEq", "ImplementPartialOrd", "ImplementOrd",
     "ImplementHash", "ImplementAdd", "ImplementSub", "ImplementMul", "ImplementDiv",
     "TransparentDebug", "TransparentDisplay", "TransparentFromInner",
     "TransparentFromStr", "TransparentSerialize", "TransparentDeserialize",
     "TransparentInner"}

\* impl<T> M for T where T: Permissive {}
PermissiveBlanket ==
    {"InnerAccess", "ImplementCopy", "ImplementClone", "ImplementDefault",
     "ImplementPartialEq", "ImplementEq", "ImplementPartialOrd", "ImplementOrd",
     "ImplementHash", "ImplementAdd", "ImplementSub", "ImplementMul", "ImplementDiv",
     "TransparentDebug", "TransparentDisplay", "TransparentFromInner",
     "TransparentFromStr", "TransparentSerialize", "TransparentDeserialize"}

\* impl<T: TransparentFromInner> FromInner for T {}
FromInnerBlanket == {"FromInner"}

\* The markers the blanket implementations add in one step to a tag that
\* carries the markers c.
BlanketStep(c) ==
    (IF "Permissive" \in c THEN PermissiveBlanket ELSE {})
        \cup (IF "TransparentFromInner" \in c THEN FromInnerBlanket ELSE {})

\* The markers a tag carries: the ones implemented for it and the ones the
\* blanket implementations derive from them.
RECURSIVE Carries(_)
Carries(g) ==
    LET n == g \cup BlanketStep(g)
    IN  IF n = g THEN g ELSE Carries(n)

\* The number of implementations of marker m that apply to a tag with the
\* impls g: rustc rejects a program in which two apply (E0119).
ImplsOf(m, g) ==
    (IF m \in g THEN 1 ELSE 0)
        + (IF m \in PermissiveBlanket /\ "Permissive" \in Carries(g) THEN 1 ELSE 0)
        + (IF m \in FromInnerBlanket /\ "TransparentFromInner" \in Carries(g) THEN 1 ELSE 0)

Coherent(g) == \A m \in Markers : ImplsOf(m, g) <= 1

(***************************************************************************)
(* The conditional implementations of TaggedType<V, T>: for each impl      *)
(* block, the markers it asks of T and the traits it asks of V.            *)
(***************************************************************************)
impl_new         == [tag |-> {}, value |-> {}]
\* inner and into_inner left open to every tag.
impl_inner_ungated == [tag |-> {}, value |-> {}]
impl_inner       == [tag |-> {"InnerAccess"}, value |-> {}]
impl_cloned      == [tag |-> {"Cloned"}, value |-> {"Clone"}]
\* map and try_map asking for InnerAccess as well.
impl_map_inner_access == [tag |-> {"ValueMap", "InnerAccess"}, value |-> {}]
impl_map         == [tag |-> {"ValueMap"}, value |-> {}]
impl_as_ref      == [tag |-> {"AsRef"}, value |-> {}]
impl_Deref       == [tag |-> {"ImplementDeref"}, value |-> {}]
impl_Clone       == [tag |-> {"ImplementClone"}, value |-> {"Clone"}]
\* Copy without the ImplementClone bound.
impl_Copy_no_clone == [tag |-> {"ImplementCopy"}, value |-> {"Copy"}]
impl_Copy        == [tag |-> {"ImplementCopy", "ImplementClone"}, value |-> {"Copy"}]
impl_Hash        == [tag |-> {"ImplementHash"}, value |-> {"Hash"}]
impl_Default     == [tag |-> {"ImplementDefault"}, value |-> {"Default"}]
impl_Debug       == [tag |-> {"TransparentDebug"}, value |-> {"Debug"}]
impl_Display     == [tag |-> {"TransparentDisplay"}, value |-> {"Display"}]
impl_FromStr     == [tag |-> {"TransparentFromStr"}, value |-> {"FromStr"}]
impl_From        == [tag |-> {"FromInner"}, value |-> {}]
impl_Add         == [tag |-> {"ImplementAdd"}, value |-> {"Add"}]
impl_Sub         == [tag |-> {"ImplementSub"}, value |-> {"Sub"}]
impl_Mul         == [tag |-> {"ImplementMul"}, value |-> {"Mul"}]
impl_Div         == [tag |-> {"ImplementDiv"}, value |-> {"Div"}]
impl_PartialEq   == [tag |-> {"ImplementPartialEq"}, value |-> {"PartialEq"}]
\* Eq without the ImplementPartialEq bound.
impl_Eq_alone    == [tag |-> {"ImplementEq"}, value |-> {"Eq"}]
impl_Eq          == [tag |-> {"ImplementEq", "ImplementPartialEq"}, value |-> {"Eq"}]
impl_PartialOrd  ==
    [tag |-> {"ImplementPartialOrd", "ImplementPartialEq"}, value |-> {"PartialOrd"}]
\* Ord without the ImplementEq bound.
impl_Ord_no_eq ==
    [tag |-> {"ImplementOrd", "ImplementPartialOrd", "ImplementPartialEq"},
     value |-> {"Ord"}]
impl_Ord         ==
    [tag |-> {"ImplementOrd", "ImplementPartialOrd", "ImplementPartialEq", "ImplementEq"},
     value |-> {"Ord"}]
impl_Serialize   == [tag |-> {"TransparentSerialize"}, value |-> {"Serialize"}]
impl_Deserialize == [tag |-> {"TransparentDeserialize"}, value |-> {"Deserialize"}]

\* The methods and trait implementations of TaggedType, by name.
Behaviours ==
    {"new", "inner", "into_inner", "cloned", "map", "try_map", "as_ref", "Deref",
     "Clone", "Copy", "Hash", "Default", "Debug", "Display", "FromStr", "From",
     "Add", "Sub", "Mul", "Div", "PartialEq", "Eq", "PartialOrd", "Ord",
     "Serialize", "Deserialize"}

\* The impl block a behaviour is written in.
ImplOf(b) ==
    CASE b = "new"                     -> impl_new
      [] b \in {"inner", "into_inner"} -> impl_inner
      [] b = "cloned"                  -> impl_cloned
      [] b \in {"map", "try_map"}      -> impl_map
      [] b = "as_ref"                  -> impl_as_ref
      [] b = "Deref"                   -> impl_Deref
      [] b = "Clone"                   -> impl_Clone
      [] b = "Copy"                    -> impl_Copy
      [] b = "Hash"                    -> impl_Hash
      [] b = "Default"                 -> impl_Default
      [] b = "Debug"                   -> impl_Debug
      [] b = "Display"                 -> impl_Display
      [] b = "FromStr"                 -> impl_FromStr
      [] b = "From"                    -> impl_From
      [] b = "Add"                     -> impl_Add
      [] b = "Sub"                     -> impl_Sub
      [] b = "Mul"                     -> impl_Mul
      [] b = "Div"                     -> impl_Div
      [] b = "PartialEq"               -> impl_PartialEq
      [] b = "Eq"                      -> impl_Eq
      [] b = "PartialOrd"              -> impl_PartialOrd
      [] b = "Ord"                     -> impl_Ord
      [] b = "Serialize"               -> impl_Serialize
      [] b = "Deserialize"             -> impl_Deserialize

(***************************************************************************)
(* The value types the wrapper is used with, and the traits each of them   *)
(* implements.                                                             *)
(***************************************************************************)
VTypes == {"u64", "String", "f64"}

ValueTraits(v) ==
    CASE v = "u64" ->
            {"Clone", "Copy", "Hash", "Default", "Debug", "Display", "FromStr",
             "Add", "Sub", "Mul", "Div", "PartialEq", "Eq", "PartialOrd", "Ord",
             "Serialize", "Deserialize"}
      [] v = "String" ->
            {"Clone", "Hash", "Default", "Debug", "Display", "FromStr", "Add",
             "PartialEq", "Eq", "PartialOrd", "Ord", "Serialize", "Deserialize"}
      [] v = "f64" ->
            {"Clone", "Copy", "Default", "Debug", "Display", "FromStr",
             "Add", "Sub", "Mul", "Div", "PartialEq", "PartialOrd",
             "Serialize", "Deserialize"}
      [] OTHER ->  \* a shared reference: &u64, &&u64, ...
            {"Clone", "Copy", "Hash", "Debug", "Display",
             "PartialEq", "Eq", "PartialOrd", "Ord", "Serialize"}

\* Behaviour b type-checks on TaggedType<v, Tag>, the tag having the impls g.
Available(b, v, g) ==
    /\ ImplOf(b).tag \subseteq Carries(g)
    /\ ImplOf(b).value \subseteq ValueTraits(v)

(***************************************************************************)
(* The markers of the catalogue: one per grantable behaviour.              *)
(***************************************************************************)
CatalogueMarkers == Markers \ {"Permissive", "TransparentFromInner"}

(***************************************************************************)
(* SpecGate: impls are written for one tag, then the compiler resolves     *)
(* which behaviours TaggedType<V, Tag> has.                                *)
(***************************************************************************)
InitGate ==
    /\ granted \in {{}, CatalogueMarkers}
    /\ vtype \in VTypes
    /\ avail = {}
    /\ gpc = "declare"
    /\ ident = "HostTag"
    /\ attrs = <<>>
    /\ out = <<>>
    /\ pc = "idle"
    /\ tagImpls = <<>>
    /\ ws = <<>>
    /\ refs = <<>>
    /\ last = <<>>

\* impl m for Tag {}
GrantMarker(m) ==
    /\ gpc = "declare"
    /\ m \notin granted
    /\ Cardinality(granted) < MaxGrants
    /\ Coherent(granted \cup {m})
    /\ granted' = granted \cup {m}
    /\ UNCHANGED <<vtype, avail, gpc>>
    /\ UNCHANGED <<deriveVars, opsVars>>

\* The compiler resolves the impls of TaggedType<vtype, Tag>.
Resolve ==
    /\ gpc = "declare"
    /\ avail' = {b \in Behaviours : Available(b, vtype, granted)}
    /\ gpc' = "resolved"
    /\ UNCHANGED <<granted, vtype>>
    /\ UNCHANGED <<deriveVars, opsVars>>

NextGate ==
    \/ \E m \in Markers : GrantMarker(m)
    \/ Resolve

SpecGate == InitGate /\ [][NextGate]_vars

(***************************************************************************)
(* TaggedType<V, T> at run time.  V is an unsigned integer of ValueBits    *)
(* bits, held by value or by reference (TaggedType<&V, T>); the tag is a   *)
(* type parameter, written here as a field the operations carry along.     *)
(***************************************************************************)
Modulus == 2 ^ ValueBits

Values == 0..(Modulus - 1)

None == [none |-> TRUE]

\* Bound of the references taken of a value: &V, &&V.
MaxRefDepth == 2

\* A value of type V (ref = 0), &V (ref = 1), &&V (ref = 2), ...: val is the
\* integer at the end of the references.
Owned(n) == [ref |-> 0, val |-> n]

Ref(n) == [ref |-> 1, val |-> n]

\* &x
RefTo(x) == [ref |-> x.ref + 1, val |-> x.val]

\* The type of the value field: u64, &u64, &&u64, ...
RECURSIVE ValueType(_)
ValueType(x) ==
    IF x.ref = 0 THEN "u64" ELSE "&" \o ValueType([ref |-> x.ref - 1, val |-> x.val])

\* struct TaggedType<Value, Tag> { v: Value, _marker: PhantomData<Tag> }
TaggedType(x, t) == [v |-> x, tag |-> t]

\* The struct without its Tag parameter.
TypeOf_untagged(w) == <<"TaggedType", ValueType(w.v), "-">>

\* The type of a wrapper: the struct with its two parameters.
TypeOf(w) == <<"TaggedType", ValueType(w.v), w.tag>>

\* A place of type ty (a parameter, a binding, other: &Self) takes w.
Accepts(ty, w) == TypeOf(w) = ty

\* new keeping the tag and dropping the value for a zero.
new_zeroed(x, t) == [v |-> [ref |-> x.ref, val |-> 0], tag |-> t]

\* TaggedType::new
new(x, t) == TaggedType(x, t)

\* From::from
from(x, t) == [v |-> x, tag |-> t]

\* into_inner
into_inner(w) == w.v

\* cloned giving a wrapper of zero in place of the referenced value.
cloned_zero(w) == new(Owned(0), w.tag)

\* cloned: TaggedType<&V, T> -> TaggedType<V, T>
cloned(w) == new([ref |-> w.v.ref - 1, val |-> w.v.val], w.tag)

\* The closures handed to map (succ, zero) and try_map (checked_pred).
Apply(f, x) ==
    CASE f = "succ" -> Owned((x.val + 1) % Modulus)
      [] f = "zero" -> Owned(0)

ApplyTry(f, x) ==
    CASE f = "checked_pred" ->
            IF x.val = 0
            THEN [ok |-> FALSE, err |-> "underflow"]
            ELSE [ok |-> TRUE, val |-> Owned(x.val - 1)]

\* map
map(w, f) == new(Apply(f, w.v), w.tag)

\* try_map wrapping the receiver's value when f fails.
try_map_wraps_err(w, f) ==
    LET r == ApplyTry(f, w.v)
    IN  [ok |-> TRUE, w |-> new(IF r.ok THEN r.val ELSE w.v, w.tag)]

\* try_map
try_map(w, f) ==
    LET r == ApplyTry(f, w.v)
    IN  IF r.ok THEN [ok |-> TRUE, w |-> new(r.val, w.tag)]
                ELSE [ok |-> FALSE, err |-> r.err]

\* as_ref: &TaggedType<V, T> -> TaggedType<&V, T>
as_ref(w) == new(RefTo(w.v), w.tag)

\* clone building a fresh value in place of cloning the receiver's.
clone_fresh(w) == [v |-> [ref |-> w.v.ref, val |-> 0], tag |-> w.tag]

\* Clone::clone
clone(w) == [v |-> w.v, tag |-> w.tag]

\* V's own operators: what a build can do with an unsigned integer.  An
\* overflow panics in a build with overflow checks and wraps in one without;
\* a division by zero panics.
Panic == [panic |-> TRUE]

Checked(n) ==
    IF n \in Values THEN {Owned(n)} ELSE {Panic, Owned(n % Modulus)}

ArithOps == {"Add", "Sub", "Mul", "Div"}

\* The values the program writes as right operands, and hands to from and
\* to new by reference: zero, one and the largest value.
RightOperands == {0, 1, Modulus - 1}

V_op(op, a, r) ==
    CASE op = "Add" -> Checked(a + r)
      [] op = "Sub" -> Checked(a - r)
      [] op = "Mul" -> Checked(a * r)
      [] op = "Div" -> IF r = 0 THEN {Panic} ELSE {Owned(a \div r)}

\* V: Add<Rhs, Output = V> and its like: an unsigned integer takes a bare
\* integer, by value or by reference, as right operand, and no wrapper.
V_accepts_rhs(r) == DOMAIN r = {"ref", "val"} /\ r.ref <= 1

\* The operators giving a wrapper of zero where V's operator panics.
arith_total(op, w, r) ==
    {[v |-> IF x = Panic THEN Owned(0) ELSE x, tag |-> w.tag] : x \in V_op(op, w.v.val, r)}

\* Add::add, Sub::sub, Mul::mul, Div::div: the wrappers a build can return,
\* or Panic.
arith(op, w, r) ==
    {IF x = Panic THEN Panic ELSE [v |-> x, tag |-> w.tag] : x \in V_op(op, w.v.val, r)}

\* PartialEq::eq, PartialOrd::partial_cmp, Ord::cmp
CmpOps == {"PartialEq", "PartialOrd", "Ord"}

Ordering(a, b) == IF a < b THEN "Less" ELSE IF a = b THEN "Equal" ELSE "Greater"

\* V's own comparisons, for an unsigned integer (a reference compares as
\* the value it points to).
V_eq(x, y) == x = y

\* Some(ordering)
V_partial_cmp(x, y) == [some |-> Ordering(x, y)]

V_cmp(x, y) == Ordering(x, y)

compare(op, a, b) ==
    CASE op = "PartialEq"  -> V_eq(a.v.val, b.v.val)
      [] op = "PartialOrd" -> V_partial_cmp(a.v.val, b.v.val)
      [] op = "Ord"        -> V_cmp(a.v.val, b.v.val)

\* A hasher is what has been written to it so far.  V's own hash, for an
\* unsigned integer, is one write of the value.
HasherStates == {<<>>, <<1>>}

V_hash(x, h) == Append(h, x)

\* Hash::hash writing nothing.
hash_nothing(w, h) == h

\* Hash::hash
hash(w, h) == V_hash(w.v.val, h)

(***************************************************************************)
(* inner, Default::default                                                 *)
(***************************************************************************)
\* inner: a reference to the field v
inner(w) == RefTo(w.v)

\* Deref::deref giving a reference to a zero.
deref_zero(w) == Ref(0)

\* Deref::deref: a reference to the field v
deref(w) == RefTo(w.v)

\* V::default() of an unsigned integer
V_default == Owned(0)

\* Default::default filling the value with a one.
default_one(t) == [v |-> Owned(1), tag |-> t]

\* Default::default
default(t) == [v |-> V_default, tag |-> t]

(***************************************************************************)
(* Text is a sequence of characters.  V's own conversions, for an unsigned *)
(* integer of ValueBits bits: what FromStr, Display, Debug and the JSON    *)
(* encoding of serde do with it.                                           *)
(***************************************************************************)
DigitChars ==
    <<"0", "1", "2", "3", "4", "5", "6", "7", "8", "9", "a", "b", "c", "d", "e", "f">>

UpperDigitChars ==
    <<"0", "1", "2", "3", "4", "5", "6", "7", "8", "9", "A", "B", "C", "D", "E", "F">>

\* The value of a decimal digit, or -1 for any other character.
DigitValue(c) ==
    IF \E d \in 0..9 : DigitChars[d + 1] = c
    THEN CHOOSE d \in 0..9 : DigitChars[d + 1] = c
    ELSE -1

\* The digits of n in the radix, most significant first.
RECURSIVE ToDigits(_, _, _)
ToDigits(n, radix, chars) ==
    IF n < radix
    THEN <<chars[n + 1]>>
    ELSE Append(ToDigits(n \div radix, radix, chars), chars[(n % radix) + 1])

Repeat(c, n) == [i \in 1..n |-> c]

Parsed(x) == [ok |-> TRUE, val |-> x]

Failed(e) == [ok |-> FALSE, err |-> e]

\* The digits of a number read from left to right; the first character
\* that is no digit, or the first step that overflows, ends the parse.
RECURSIVE ParseDigits(_, _)
ParseDigits(s, acc) ==
    IF s = <<>>
    THEN Parsed(Owned(acc))
    ELSE LET d == DigitValue(Head(s))
         IN  IF d < 0
             THEN Failed("InvalidDigit")
             ELSE IF acc * 10 + d \notin Values
                  THEN Failed("PosOverflow")
                  ELSE ParseDigits(Tail(s), acc * 10 + d)

\* <V as FromStr>::from_str
V_from_str(s) ==
    IF s = <<>>
    THEN Failed("Empty")
    ELSE IF s = <<"+">> \/ s = <<"-">>
         THEN Failed("InvalidDigit")
         ELSE IF Head(s) = "+" THEN ParseDigits(Tail(s), 0) ELSE ParseDigits(s, 0)

\* The options of a Formatter: {:width}, {:+}, {:0width}, {:#}, {:x?}, {:X?}
FormatSpec(width, plus, zero, alt, hex) ==
    [width |-> width, plus |-> plus, zero |-> zero, alt |-> alt, hex |-> hex]

\* Formatter::pad_integral for a number that is not negative
pad_integral(prefix, digits, f) ==
    LET sign == IF f.plus THEN <<"+">> ELSE <<>>
        pre  == IF f.alt THEN prefix ELSE <<>>
        body == sign \o pre \o digits
    IN  IF f.width <= Len(body)
        THEN body
        ELSE IF f.zero
             THEN sign \o pre \o Repeat("0", f.width - Len(body)) \o digits
             ELSE Repeat(" ", f.width - Len(body)) \o body

\* <V as Display>::fmt
V_Display_fmt(n, f) == pad_integral(<<>>, ToDigits(n, 10, DigitChars), f)

\* <V as Debug>::fmt
V_Debug_fmt(n, f) ==
    CASE f.hex = "x" -> pad_integral(<<"0", "x">>, ToDigits(n, 16, DigitChars), f)
      [] f.hex = "X" -> pad_integral(<<"0", "x">>, ToDigits(n, 16, UpperDigitChars), f)
      [] OTHER       -> V_Display_fmt(n, f)

FmtTraits == {"Display", "Debug"}

V_fmt(tr, n, f) ==
    CASE tr = "Display" -> V_Display_fmt(n, f)
      [] tr = "Debug"   -> V_Debug_fmt(n, f)

\* <V as Serialize>::serialize into JSON text
V_serialize(n) == ToDigits(n, 10, DigitChars)

\* <V as Deserialize>::deserialize from JSON text, as serde_json reads an
\* unsigned integer from a text of digits, signs and letters that start no
\* JSON literal: an optional minus, then a single 0 or a run of digits that
\* starts with 1..9.  The number is a u64 if it has no sign, an i64 if it
\* has one, and a float where that does not hold it: -0, below -2^63, above
\* 2^64 - 1.  It is handed to V's visitor, which refuses a float, a negative
\* number and one out of V's range; then the end of the text is required.
\* The limits of i64 and u64 are compared digit by digit, V's range as a
\* number.  The texts have no white space, fraction or exponent, and at
\* most 308 digits, so that the float is finite.
V_deserialize(s) ==
    LET neg  == s # <<>> /\ Head(s) = "-"
        body == IF neg THEN Tail(s) ELSE s
        run  == Cardinality({i \in 1..Len(body) :
                                \A j \in 1..i : DigitValue(body[j]) >= 0})
        RECURSIVE NumberOf(_)
        NumberOf(i) == IF i = 0 THEN 0 ELSE NumberOf(i - 1) * 10 + DigitValue(body[i])
        \* 2^63 and 2^64 - 1
        i64_min_magnitude == <<9, 2, 2, 3, 3, 7, 2, 0, 3, 6, 8, 5, 4, 7, 7, 5, 8, 0, 8>>
        u64_max == <<1, 8, 4, 4, 6, 7, 4, 4, 0, 7, 3, 7, 0, 9, 5, 5, 1, 6, 1, 5>>
        \* the first k digits of body are a number above lim
        Above(k, lim) ==
            \/ k > Len(lim)
            \/ /\ k = Len(lim)
               /\ \E i \in 1..k :
                     /\ DigitValue(body[i]) > lim[i]
                     /\ \A j \in 1..(i - 1) : DigitValue(body[j]) = lim[j]
        \* the first k digits of body are a number of V
        InRange(k) ==
            /\ k <= Len(ToDigits(Modulus - 1, 10, DigitChars))
            /\ NumberOf(k) \in Values
    IN  IF body = <<>>
        THEN Failed("EofWhileParsingValue")
        ELSE IF run = 0
             THEN Failed(IF neg THEN "InvalidNumber" ELSE "ExpectedSomeValue")
             ELSE IF Head(body) = "0" /\ run > 1
                  THEN Failed("InvalidNumber")
                  ELSE LET digits == IF Head(body) = "0" THEN 1 ELSE run
                       IN  IF neg
                           THEN Failed(IF Head(body) = "0" \/ Above(digits, i64_min_magnitude)
                                       THEN "InvalidType"
                                       ELSE "InvalidValue")
                           ELSE IF Above(digits, u64_max)
                                THEN Failed("InvalidType")
                                ELSE IF ~InRange(digits)
                                     THEN Failed("InvalidValue")
                                     ELSE IF digits < Len(body)
                                          THEN Failed("TrailingCharacters")
                                          ELSE Parsed(Owned(NumberOf(digits)))

(***************************************************************************)
(* FromStr, Debug, Display, Serialize and Deserialize of TaggedType        *)
(***************************************************************************)
\* from_str handing out a wrapper of V::default() when V's parser fails.
from_str_lenient(s, t) ==
    LET r == V_from_str(s)
    IN  [ok |-> TRUE, w |-> [v |-> IF r.ok THEN r.val ELSE Owned(0), tag |-> t]]

\* FromStr::from_str
from_str(s, t) ==
    LET r == V_from_str(s)
    IN  IF r.ok THEN [ok |-> TRUE, w |-> [v |-> r.val, tag |-> t]]
                ELSE Failed(r.err)

\* Debug written the way #[derive(Debug)] writes a struct.
fmt_derived(tr, w, f) ==
    IF tr = "Debug"
    THEN <<"T", "(">> \o V_fmt(tr, w.v.val, f) \o <<")">>
    ELSE V_fmt(tr, w.v.val, f)

\* Debug::fmt, Display::fmt
fmt(tr, w, f) == V_fmt(tr, w.v.val, f)

\* Serialize::serialize
serialize(w) == V_serialize(w.v.val)

\* Deserialize failing with an error of its own in place of V's.
deserialize_own_error(s, t) ==
    LET r == V_deserialize(s)
    IN  IF r.ok THEN [ok |-> TRUE, w |-> new(r.val, t)]
                ELSE Failed("InvalidTaggedType")

\* Deserialize::deserialize
deserialize(s, t) ==
    LET r == V_deserialize(s)
    IN  IF r.ok THEN [ok |-> TRUE, w |-> new(r.val, t)]
                ELSE Failed(r.err)

(***************************************************************************)
(* SpecOps: a program with two tags and two bindings.  A tag has every     *)
(* marker of the catalogue implemented by hand, or every marker but        *)
(* ImplementCopy (its wrappers are moved, not copied), or Permissive, or    *)
(* the impls that #[derive(Tag)] writes for the declaration of             *)
(* test_derive_all.                                                        *)
(***************************************************************************)
DeriveAllDecl ==
    <<Attr("implement", <<"Default", "Eq", "PartialEq", "Ord", "PartialOrd", "Hash",
                          "Clone", "Copy">>),
      Attr("transparent", <<"Debug", "Display", "FromStr">>),
      Attr("capability", <<"inner_access">>)>>

\* The markers a token stream implements.
ImplsIn(o) == {o[i].text : i \in {k \in 1..Len(o) : o[k].kind = "impl"}}

DerivedMarkers == ImplsIn(derive_tag(DeriveAllDecl, "CounterU64Tag"))

\* The programs: the two tags are declared in two different ways.
TagImplChoices ==
    {[t \in TagNames |-> IF t = "HostTag" THEN c[1] ELSE c[2]] :
        c \in {<<CatalogueMarkers, {"Permissive"}>>,
               <<{"Permissive"}, DerivedMarkers>>,
               <<DerivedMarkers, CatalogueMarkers \ {"ImplementCopy"}>>}}

Slots == {1, 2}

\* Bound of the texts handed to the parsers.
MaxText == 2

\* The texts handed to from_str and deserialize: the short ones of a digit
\* in range, a digit out of range and a letter, some with a sign, and the
\* encoding of every value.
TextInputs ==
    UNION {[1..k -> {"0", "9", "x"}] : k \in 0..MaxText}
        \cup {<<"+">>, <<"-">>, <<"+", "0">>, <<"+", "9">>,
              <<"-", "0">>, <<"-", "1">>, <<"-", "x">>}
        \cup {V_serialize(n) : n \in Values}

\* The formatters: {}, {:3}, {:+03}, {:#x?}, {:#04X?}
FormatSpecs ==
    {FormatSpec(0, FALSE, FALSE, FALSE, ""),
     FormatSpec(3, FALSE, FALSE, FALSE, ""),
     FormatSpec(3, TRUE, TRUE, FALSE, ""),
     FormatSpec(0, FALSE, FALSE, TRUE, "x"),
     FormatSpec(4, FALSE, TRUE, TRUE, "X")}

Has(i) == ws[i] # None

\* What the tags of the programs carry: Carries of each set of markers that
\* a program implements for a tag.
ProgramCarries ==
    [g \in UNION {{c[t] : t \in TagNames} : c \in TagImplChoices} |-> Carries(g)]

\* Behaviour b type-checks on the wrapper w: Available of b on the value
\* type of w and the markers of its tag.
Usable(b, w) ==
    /\ ImplOf(b).tag \subseteq ProgramCarries[tagImpls[w.tag]]
    /\ ImplOf(b).value \subseteq ValueTraits(ValueType(w.v))

\* A binding used by value with nothing left in it, Copy or not.
AfterUse_moved(w) == None

\* What is left in a binding that was used by value: the wrapper if its
\* type is Copy, nothing if it was moved out.
AfterUse(w) == IF Usable("Copy", w) THEN w ELSE None

\* The borrows of the program.  refs[j] lists, outermost reference first,
\* the bindings whose wrappers the references held by ws[j] point into, one
\* entry for each & of its value type; 0 stands for a referent that no
\* binding names: a local value, or a wrapper whose binding was bound anew
\* since (let w = ...: the wrapper it named lives on to the end of the
\* scope).  A borrow lasts up to the last use of the wrapper that holds it:
\* a wrapper that is lent may be moved, and the move is the end of the
\* borrows of it, so the bindings that hold them are not used again (a use
\* of one after the move is E0505) and hold nothing from then on.

\* The bindings whose wrappers hold a reference into the wrapper of
\* binding i.
Borrowers(i) == {j \in Slots : \E k \in 1..Len(refs[j]) : refs[j][k] = i}

\* The borrows once the bindings of S name other wrappers: the references
\* into the wrappers they named point into no binding.
Released(S) ==
    [j \in Slots |-> [k \in 1..Len(refs[j]) |-> IF refs[j][k] \in S THEN 0 ELSE refs[j][k]]]

\* What the bindings hold, f[j] before, once the wrapper of binding i was
\* used by value: a Copy wrapper is copied and nothing changes; any other
\* is moved out, which leaves z, for nothing, in its binding and in the
\* bindings of the wrappers that borrowed it.
AfterUseOf(f, i, z) ==
    IF AfterUse(ws[i]) = None
    THEN [j \in Slots |-> IF j \in {i} \cup Borrowers(i) THEN z ELSE f[j]]
    ELSE f

Did(op, recv, res, rhs) == [op |-> op, recv |-> recv, res |-> res, rhs |-> rhs]

\* The record of a call with its argument, what it returned, and the
\* bindings it read (src) and wrote (dst); 0 for no binding.
With(d, arg, ret, src, dst) ==
    [op |-> d.op, recv |-> d.recv, res |-> d.res, rhs |-> d.rhs,
     arg |-> arg, ret |-> ret, src |-> src, dst |-> dst]

TagOf(w) == IF w = None \/ w = Panic THEN "-" ELSE w.tag

InitOps ==
    /\ tagImpls \in TagImplChoices
    /\ ws = [i \in Slots |-> None]
    /\ refs = [i \in Slots |-> <<>>]
    /\ last = With(Did("start", "-", "-", "-"), None, None, 0, 0)
    /\ ident = "HostTag"
    /\ attrs = <<>>
    /\ out = <<>>
    /\ pc = "idle"
    /\ granted = {}
    /\ vtype = "u64"
    /\ avail = {}
    /\ gpc = "idle"

Frame == UNCHANGED <<tagImpls, deriveVars, gateVars>>

\* let ws[j] = TaggedType::<V, t>::new(n)
New(j, n, t) ==
    /\ ws' = [ws EXCEPT ![j] = new(Owned(n), t)]
    /\ refs' = [Released({j}) EXCEPT ![j] = <<>>]
    /\ last' = With(Did("new", "-", t, "-"), Owned(n), ws'[j], 0, j)
    /\ Frame

\* ws[i].into_inner()
IntoInner(i) ==
    /\ Has(i)
    /\ Usable("into_inner", ws[i])
    /\ ws' = AfterUseOf(ws, i, None)
    /\ refs' = AfterUseOf(refs, i, <<>>)
    /\ last' = With(Did("into_inner", ws[i].tag, "-", "-"), ws[i], into_inner(ws[i]), i, 0)
    /\ Frame

\* ws[i].inner()
Inner(i) ==
    /\ Has(i)
    /\ Usable("inner", ws[i])
    /\ last' = With(Did("inner", ws[i].tag, "-", "-"), ws[i], inner(ws[i]), i, 0)
    /\ UNCHANGED <<ws, refs>>
    /\ Frame

\* *ws[i], ws[i].deref()
Deref(i) ==
    /\ Has(i)
    /\ Usable("Deref", ws[i])
    /\ last' = With(Did("deref", ws[i].tag, "-", "-"), ws[i], deref(ws[i]), i, 0)
    /\ UNCHANGED <<ws, refs>>
    /\ Frame

\* let ws[j] = TaggedType::<V, t>::default()
Default(j, t) ==
    /\ Available("Default", "u64", tagImpls[t])
    /\ ws' = [ws EXCEPT ![j] = default(t)]
    /\ refs' = [Released({j}) EXCEPT ![j] = <<>>]
    /\ last' = With(Did("default", "-", t, "-"), None, ws'[j], 0, j)
    /\ Frame

\* let ws[j] = ws[i].clone(): the clone holds the references ws[i] holds
Clone(i, j) ==
    /\ Has(i)
    /\ Usable("Clone", ws[i])
    /\ ws' = [ws EXCEPT ![j] = clone(ws[i])]
    /\ refs' = [Released({j}) EXCEPT ![j] = Released({j})[i]]
    /\ last' = With(Did("clone", ws[i].tag, TagOf(ws'[j]), "-"), ws[i], ws'[j], i, j)
    /\ Frame

\* let ws[j] = ws[i]: a copy of a Copy wrapper, a move of any other; with
\* j = i the binding is bound anew to the wrapper it named, or to its copy
Assign(i, j) ==
    /\ Has(i)
    /\ ws' = [AfterUseOf(ws, i, None) EXCEPT ![j] = ws[i]]
    /\ refs' = [AfterUseOf(Released({j}), i, <<>>) EXCEPT ![j] = Released({j})[i]]
    /\ last' = With(Did(IF Usable("Copy", ws[i]) THEN "copy" ELSE "move",
                        ws[i].tag, TagOf(ws'[j]), "-"),
                    ws[i], ws'[j], i, j)
    /\ Frame

\* let ws[i] = ws[i].map(f); calls is what f was called with: self.v, once
Map(i, f) ==
    /\ Has(i)
    /\ Usable("map", ws[i])
    /\ ws' = [AfterUseOf(ws, i, None) EXCEPT ![i] = map(ws[i], f)]
    /\ refs' = [AfterUseOf(Released({i}), i, <<>>) EXCEPT ![i] = <<>>]
    /\ last' = With(Did("map", ws[i].tag, TagOf(ws'[i]), "-"), [w |-> ws[i], f |-> f],
                    [out |-> map(ws[i], f), calls |-> <<ws[i].v>>], i, i)
    /\ Frame

\* ws[i].try_map(f), binding i naming the wrapper of an Ok from then on: the
\* receiver is used by value, so on Err the binding keeps it only if it is
\* Copy; calls is what f was called with: self.v, once
TryMap(i, f) ==
    /\ Has(i)
    /\ Usable("try_map", ws[i])
    /\ LET r == try_map(ws[i], f)
       IN  /\ ws' = IF r.ok THEN [AfterUseOf(ws, i, None) EXCEPT ![i] = r.w]
                           ELSE AfterUseOf(ws, i, None)
           /\ refs' = IF r.ok THEN [AfterUseOf(Released({i}), i, <<>>) EXCEPT ![i] = <<>>]
                             ELSE AfterUseOf(refs, i, <<>>)
           /\ last' = With(Did("try_map", ws[i].tag, IF r.ok THEN r.w.tag ELSE "-", "-"),
                           [w |-> ws[i], f |-> f],
                           [out |-> r, calls |-> <<ws[i].v>>], i, i)
    /\ Frame

\* let ws[j] = ws[i].as_ref(): the result borrows the wrapper of binding i,
\* and with it whatever that wrapper borrows; with j = i the binding names
\* the result from then on and the wrapper it borrows is named by none
AsRef(i, j) ==
    /\ Has(i)
    /\ ws[i].v.ref < MaxRefDepth
    /\ Usable("as_ref", ws[i])
    /\ ws' = [ws EXCEPT ![j] = as_ref(ws[i])]
    /\ refs' = [Released({j}) EXCEPT ![j] = <<IF i = j THEN 0 ELSE i>> \o Released({j})[i]]
    /\ last' = With(Did("as_ref", ws[i].tag, TagOf(ws'[j]), "-"), ws[i], as_ref(ws[i]), i, j)
    /\ Frame

\* let ws[j] = TaggedType::<V, t>::from(n), let ws[j] = n.into()
From(j, n, t) ==
    /\ Available("From", "u64", tagImpls[t])
    /\ ws' = [ws EXCEPT ![j] = from(Owned(n), t)]
    /\ refs' = [Released({j}) EXCEPT ![j] = <<>>]
    /\ last' = With(Did("from", "-", t, "-"), Owned(n), ws'[j], 0, j)
    /\ Frame

\* let ws[j] = TaggedType::<&V, t>::new(&n), n a local value
NewRef(j, n, t) ==
    /\ ws' = [ws EXCEPT ![j] = new(Ref(n), t)]
    /\ refs' = [Released({j}) EXCEPT ![j] = <<0>>]
    /\ last' = With(Did("new", "-", t, "-"), Ref(n), ws'[j], 0, j)
    /\ Frame

\* let ws[j] = ws[i].cloned(): the result holds what the outermost reference
\* of ws[i] pointed at, with the references that value holds
Cloned(i, j) ==
    /\ Has(i)
    /\ ws[i].v.ref > 0
    /\ Available("cloned", ValueType(cloned(ws[i]).v), tagImpls[ws[i].tag])
    /\ ws' = [AfterUseOf(ws, i, None) EXCEPT ![j] = cloned(ws[i])]
    /\ refs' = [AfterUseOf(Released({j}), i, <<>>) EXCEPT ![j] = Tail(Released({j})[i])]
    /\ last' = With(Did("cloned", ws[i].tag, TagOf(ws'[j]), "-"), ws[i], cloned(ws[i]), i, j)
    /\ Frame

\* catch_unwind(|| ws[i] op r), binding i naming the result from then on:
\* the receiver is used by value, so after a panic the binding keeps it only
\* if it is Copy
Arith(op, i, r) ==
    /\ Has(i)
    /\ ws[i].v.ref = 0
    /\ V_accepts_rhs(r)
    /\ Usable(op, ws[i])
    /\ \E x \in arith(op, ws[i], r.val) :
          /\ ws' = IF x = Panic THEN AfterUseOf(ws, i, None)
                                ELSE [AfterUseOf(ws, i, None) EXCEPT ![i] = x]
          /\ refs' = IF x = Panic THEN AfterUseOf(refs, i, <<>>)
                                  ELSE [AfterUseOf(Released({i}), i, <<>>) EXCEPT ![i] = <<>>]
          /\ last' = With(Did(IF x = Panic THEN "panic" ELSE op, ws[i].tag, TagOf(x), "-"),
                          [op |-> op, w |-> ws[i], r |-> r], x, i, i)
    /\ Frame

\* ws[i] == ws[j], ws[i].partial_cmp(&ws[j]), ws[i].cmp(&ws[j])
Compare(op, i, j) ==
    /\ Has(i)
    /\ Has(j)
    /\ Usable(op, ws[i])
    /\ Accepts(TypeOf(ws[i]), ws[j])
    /\ last' = With(Did(op, ws[i].tag, "-", ws[j].tag), [a |-> ws[i], b |-> ws[j]],
                    compare(op, ws[i], ws[j]), i, 0)
    /\ UNCHANGED <<ws, refs>>
    /\ Frame

\* ws[i].hash(&mut h)
Hash(i, h) ==
    /\ Has(i)
    /\ Usable("Hash", ws[i])
    /\ last' = With(Did("hash", ws[i].tag, "-", "-"), [w |-> ws[i], h |-> h],
                    hash(ws[i], h), i, 0)
    /\ UNCHANGED <<ws, refs>>
    /\ Frame

\* f(&ws[i]) for fn f(x: &TaggedType<V, t>)
Pass(i, t) ==
    /\ Has(i)
    /\ Accepts(<<"TaggedType", ValueType(ws[i].v), t>>, ws[i])
    /\ last' = With(Did("pass", ws[i].tag, t, "-"), None, None, 0, 0)
    /\ UNCHANGED <<ws, refs>>
    /\ Frame

\* s.parse::<TaggedType<V, t>>(), binding j naming the wrapper of an Ok
FromStr(j, s, t) ==
    /\ Available("FromStr", "u64", tagImpls[t])
    /\ LET r == from_str(s, t)
       IN  /\ ws' = [ws EXCEPT ![j] = IF r.ok THEN r.w ELSE ws[j]]
           /\ refs' = IF r.ok THEN [Released({j}) EXCEPT ![j] = <<>>] ELSE refs
           /\ last' = With(Did("from_str", "-", IF r.ok THEN t ELSE "-", "-"), s, r, 0, j)
    /\ Frame

\* format!("{}", ws[i]), format!("{:?}", ws[i]) with the options f
Fmt(tr, i, f) ==
    /\ Has(i)
    /\ Usable(tr, ws[i])
    /\ last' = With(Did(tr, ws[i].tag, "-", "-"), [w |-> ws[i], f |-> f],
                    fmt(tr, ws[i], f), i, 0)
    /\ UNCHANGED <<ws, refs>>
    /\ Frame

\* serde_json::to_string(&ws[i])
Serialize(i) ==
    /\ Has(i)
    /\ Usable("Serialize", ws[i])
    /\ last' = With(Did("serialize", ws[i].tag, "-", "-"), ws[i], serialize(ws[i]), i, 0)
    /\ UNCHANGED <<ws, refs>>
    /\ Frame

\* serde_json::from_str::<TaggedType<V, t>>(s), binding j naming the
\* wrapper of an Ok
Deserialize(j, s, t) ==
    /\ Available("Deserialize", "u64", tagImpls[t])
    /\ LET r == deserialize(s, t)
       IN  /\ ws' = [ws EXCEPT ![j] = IF r.ok THEN r.w ELSE ws[j]]
           /\ refs' = IF r.ok THEN [Released({j}) EXCEPT ![j] = <<>>] ELSE refs
           /\ last' = With(Did("deserialize", "-", IF r.ok THEN t ELSE "-", "-"), s, r, 0, j)
    /\ Frame

NextOps ==
    \/ \E j \in Slots, n \in Values, t \in TagNames : New(j, n, t)
    \/ \E j \in Slots, n \in RightOperands, t \in TagNames : NewRef(j, n, t)
    \/ \E j \in Slots, n \in RightOperands, t \in TagNames : From(j, n, t)
    \/ \E i \in Slots : IntoInner(i)
    \/ \E i \in Slots : Inner(i)
    \/ \E i \in Slots : Deref(i)
    \/ \E j \in Slots, t \in TagNames : Default(j, t)
    \/ \E i, j \in Slots : Clone(i, j)
    \/ \E i, j \in Slots : Assign(i, j)
    \/ \E i \in Slots, f \in {"succ", "zero"} : Map(i, f)
    \/ \E i \in Slots, f \in {"checked_pred"} : TryMap(i, f)
    \/ \E i, j \in Slots : AsRef(i, j)
    \/ \E i, j \in Slots : Cloned(i, j)
    \/ \E op \in ArithOps, i \in Slots :
          \E r \in {Owned(n) : n \in RightOperands} \cup {ws[j] : j \in Slots} :
              Arith(op, i, r)
    \/ \E op \in CmpOps, i, j \in Slots : Compare(op, i, j)
    \/ \E i \in Slots, h \in HasherStates : Hash(i, h)
    \/ \E i \in Slots, t \in TagNames : Pass(i, t)

SpecOps == InitOps /\ [][NextOps]_vars

(***************************************************************************)
(* SpecText: a program that converts owned wrappers to and from text, with *)
(* one binding.                                                            *)
(***************************************************************************)
NextText ==
    \/ \E n \in Values, t \in TagNames : New(1, n, t)
    \/ \E s \in TextInputs, t \in TagNames : FromStr(1, s, t)
    \/ \E tr \in FmtTraits, f \in FormatSpecs : Fmt(tr, 1, f)
    \/ Serialize(1)
    \/ \E s \in TextInputs, t \in TagNames : Deserialize(1, s, t)

SpecText == InitOps /\ [][NextText]_vars

(***************************************************************************)
(* SpecSnapshot: the wrapper of src/src/tagged_type.rs with the markers of *)
(* src/src/traits.rs.  Impls are written for one tag, then the compiler    *)
(* resolves which behaviours TaggedType<V, Tag> has in that snapshot.      *)
(***************************************************************************)
\* src/src/traits.rs
\* impl<T> M for T where T: Permissive {}: the markers of traits.rs
SnapshotPermissiveBlanket ==
    {"InnerAccess", "ImplementDeref", "ImplementPartialEq", "ImplementEq",
     "ImplementDefault", "TransparentDebug", "TransparentDisplay", "ImplementClone",
     "ImplementCopy", "ImplementHash", "TransparentFromStr", "TransparentFromInner",
     "TransparentSerialize", "TransparentDeserialize"}

\* The markers of traits.rs, which the crate root exports.
SnapshotMarkers == SnapshotPermissiveBlanket \cup {"Permissive"}

\* The six traits that tagged_type.rs declares itself, under names that
\* traits.rs uses too: other traits, which no blanket impl covers.
SnapshotLocalTraits ==
    {"tagged_type::TransparentDebug", "tagged_type::TransparentDisplay",
     "tagged_type::TransparentFromStr", "tagged_type::TransparentFromInner",
     "tagged_type::TransparentSerialize", "tagged_type::TransparentDeserialize"}

SnapshotCarries(g) ==
    g \cup (IF "Permissive" \in g THEN SnapshotPermissiveBlanket ELSE {})

\* No marker is implemented twice for the tag (E0119).
SnapshotCoherent(g) == "Permissive" \in g => g \cap SnapshotPermissiveBlanket = {}


SnapshotBehaviours ==
    {"new", "inner", "into_inner", "Deref", "Clone", "Copy", "Hash", "PartialEq",
     "Eq", "Default", "Debug", "Display", "FromStr", "From", "Serialize", "Deserialize"}

\* The impl block of the snapshot a behaviour is written in: the traits it
\* asks of T and the traits it asks of V.  The bounds of the last six name
\* the traits declared in tagged_type.rs.
SnapshotImplOf(b) ==
    CASE b \in {"new", "inner", "into_inner"} -> [tag |-> {}, value |-> {}]
      [] b = "Deref"       -> [tag |-> {}, value |-> {}]
      [] b = "Clone"       -> [tag |-> {}, value |-> {"Clone"}]
      [] b = "Copy"        -> [tag |-> {}, value |-> {"Copy"}]
      [] b = "Hash"        -> [tag |-> {}, value |-> {"Hash"}]
      [] b = "PartialEq"   -> [tag |-> {}, value |-> {"PartialEq"}]
      [] b = "Eq"          -> [tag |-> {}, value |-> {"Eq"}]
      [] b = "Default"     -> [tag |-> {}, value |-> {"Default"}]
      [] b = "Debug"       -> [tag |-> {"tagged_type::TransparentDebug"}, value |-> {"Debug"}]
      [] b = "Display"     -> [tag |-> {"tagged_type::TransparentDisplay"}, value |-> {"Display"}]
      [] b = "FromStr"     -> [tag |-> {"tagged_type::TransparentFromStr"}, value |-> {"FromStr"}]
      [] b = "From"        -> [tag |-> {"tagged_type::TransparentFromInner"}, value |-> {}]
      [] b = "Serialize"   -> [tag |-> {"tagged_type::TransparentSerialize"}, value |-> {"Serialize"}]
      [] b = "Deserialize" -> [tag |-> {"tagged_type::TransparentDeserialize"}, value |-> {"Deserialize"}]

\* Behaviour b type-checks on TaggedType<v, Tag> of the snapshot, the tag
\* having the impls g.
SnapshotAvailable(b, v, g) ==
    /\ SnapshotImplOf(b).tag \subseteq SnapshotCarries(g)
    /\ SnapshotImplOf(b).value \subseteq ValueTraits(v)

InitSnapshot ==
    /\ granted = {}
    /\ vtype \in VTypes
    /\ avail = {}
    /\ gpc = "declare"
    /\ ident = "HostTag"
    /\ attrs = <<>>
    /\ out = <<>>
    /\ pc = "idle"
    /\ tagImpls = <<>>
    /\ ws = <<>>
    /\ refs = <<>>
    /\ last = <<>>

\* impl m for Tag {}
GrantSnapshotMarker(m) ==
    /\ gpc = "declare"
    /\ m \notin granted
    /\ Cardinality(granted) < MaxGrants
    /\ SnapshotCoherent(granted \cup {m})
    /\ granted' = granted \cup {m}
    /\ UNCHANGED <<vtype, avail, gpc>>
    /\ UNCHANGED <<deriveVars, opsVars>>

\* The compiler resolves the impls of the snapshot's TaggedType<vtype, Tag>.
ResolveSnapshot ==
    /\ gpc = "declare"
    /\ avail' = {b \in SnapshotBehaviours : SnapshotAvailable(b, vtype, granted)}
    /\ gpc' = "resolved"
    /\ UNCHANGED <<granted, vtype>>
    /\ UNCHANGED <<deriveVars, opsVars>>

NextSnapshot ==
    \/ \E m \in SnapshotMarkers \cup SnapshotLocalTraits : GrantSnapshotMarker(m)
    \/ ResolveSnapshot

SpecSnapshot == InitSnapshot /\ [][NextSnapshot]_vars

(***************************************************************************)
(* Vocabulary of the claims about derive_tag.                              *)
(***************************************************************************)
Range(s) == {s[i] : i \in 1..Len(s)}

Count(s, x) == Cardinality({i \in 1..Len(s) : s[i] = x})

HasAttr(k) == \E i \in 1..Len(attrs) : attrs[i].name = k

HasListAttr == \E i \in 1..Len(attrs) : attrs[i].name \in ListKinds

\* Every kind of list is written at most once on the tag.
OneListPerKind ==
    \A i, j \in 1..Len(attrs) :
        (attrs[i].name \in ListKinds /\ attrs[i].name = attrs[j].name) => i = j

\* The names a list recognizes, as the documentation of the lists gives them.
Recognized(k) ==
    CASE k = "implement" ->
            {"Default", "Clone", "Copy", "PartialEq", "Eq", "PartialOrd", "Ord",
             "Hash", "Deref", "Add", "Sub", "Mul", "Div"}
      [] k = "transparent" ->
            {"Display", "Debug", "FromStr", "Serialize", "Deserialize"}
      [] k = "capability" ->
            {"inner_access", "from_inner", "value_map", "cloned", "as_ref"}

\* The marker a recognized name of a list stands for.
MarkerOf(k, v) ==
    CASE k = "implement"   -> "Implement" \o v
      [] k = "transparent" -> "Transparent" \o v
      [] k = "capability"  ->
            CASE v = "inner_access" -> "InnerAccess"
              [] v = "from_inner"   -> "FromInner"
              [] v = "value_map"    -> "ValueMap"
              [] v = "cloned"       -> "Cloned"
              [] v = "as_ref"       -> "AsRef"

\* The error of a list for a name it does not recognize.
UnknownNameError(k, v) ==
    CASE k = "implement"   -> CompileError("Don't know how to implement: " \o v)
      [] k = "transparent" -> CompileError("Don't know how to make " \o v \o " transparent")
      [] k = "capability"  -> CompileError("Don't know capability: " \o v)

AllRecognized ==
    \A i \in 1..Len(attrs) :
        attrs[i].name \in ListKinds =>
            \A j \in 1..Len(attrs[i].items) : attrs[i].items[j] \in Recognized(attrs[i].name)

\* The position of the first name of the list that its kind does not
\* recognize, or one past the end of the list.
FirstUnrecognized(a) ==
    IF \E j \in 1..Len(a.items) : a.items[j] \notin Recognized(a.name)
    THEN CHOOSE j \in 1..Len(a.items) :
            /\ a.items[j] \notin Recognized(a.name)
            /\ \A h \in 1..(j - 1) : a.items[h] \in Recognized(a.name)
    ELSE Len(a.items) + 1

TotalItems ==
    LET RECURSIVE Sum(_)
        Sum(i) == IF i = 0 THEN 0
                  ELSE Sum(i - 1) +
                       (IF attrs[i].name \in ListKinds THEN Len(attrs[i].items) ELSE 0)
    IN  Sum(Len(attrs))

Grants == {t \in Range(out) : t.kind = "impl"}

Errors == {t \in Range(out) : t.kind = "compile_error"}

(***************************************************************************)
(* C2: a declaration that carries #[permissive] together with an           *)
(* implement, transparent or capability attribute gets the one compile     *)
(* error "permissive must be the only attribute in derive" and no grant,   *)
(* and none of the three list handlers runs on it.                         *)
(***************************************************************************)
C2_PermissiveMustBeAlone ==
    (HasAttr("permissive") /\ HasListAttr) =>
        /\ pc \in {"permissive", "done"}
        /\ pc = "permissive" => out = <<>>
        /\ pc = "done" =>
              /\ out = <<CompileError("permissive must be the only attribute in derive")>>
              /\ Grants = {}

C2_Witness ==
    /\ pc = "done"
    /\ HasAttr("permissive")
    /\ \E i \in 1..Len(attrs) :
          /\ attrs[i].name = "implement"
          /\ attrs[i].items = <<"Clone">>
    /\ Len(out) = 1
    /\ out[1].kind = "compile_error"

(***************************************************************************)
(* C3, as claimed: whenever a list holds a name it does not recognize, the *)
(* output holds the compile error of that list for that name, and no       *)
(* grant for it.  Stated for the declarations whose lists are all looked   *)
(* at: no #[permissive], each kind of list written at most once.           *)
(***************************************************************************)
C3_EveryUnknownNameReported ==
    (pc = "done" /\ ~HasAttr("permissive") /\ OneListPerKind) =>
        \A i \in 1..Len(attrs) :
            attrs[i].name \in ListKinds =>
                \A j \in 1..Len(attrs[i].items) :
                    attrs[i].items[j] \notin Recognized(attrs[i].name) =>
                        /\ UnknownNameError(attrs[i].name, attrs[i].items[j]) \in Errors
                        /\ attrs[i].name \in {"implement", "transparent"} =>
                              Impl(MarkerOf(attrs[i].name, attrs[i].items[j]), ident)
                                  \notin Grants

(***************************************************************************)
(* C3, amended: on a declaration without #[permissive] that writes each    *)
(* kind of list at most once, a list that holds a name it does not         *)
(* recognize puts exactly one compile error in the output, in the wording  *)
(* of that list and naming the first such name of the list; a list of      *)
(* recognized names puts none; and every grant of the output is the marker *)
(* of a name that its list recognizes, so no unrecognized name is granted. *)
(***************************************************************************)
C3_FirstUnknownNameReported ==
    (pc = "done" /\ ~HasAttr("permissive") /\ OneListPerKind) =>
        /\ \A i \in 1..Len(attrs) :
              attrs[i].name \in ListKinds =>
                  LET a == attrs[i]
                      f == FirstUnrecognized(a)
                  IN  IF f <= Len(a.items)
                      THEN /\ Count(out, UnknownNameError(a.name, a.items[f])) = 1
                           /\ \A j \in 1..Len(a.items) :
                                 (a.items[j] \notin Recognized(a.name)
                                    /\ a.items[j] # a.items[f]) =>
                                     UnknownNameError(a.name, a.items[j]) \notin Errors
                      ELSE \A v \in AllNames : UnknownNameError(a.name, v) \notin Errors
        /\ Cardinality(Errors) =
              Cardinality({i \in 1..Len(attrs) :
                              /\ attrs[i].name \in ListKinds
                              /\ FirstUnrecognized(attrs[i]) <= Len(attrs[i].items)})
        /\ \A t \in Grants :
              \E i \in 1..Len(attrs) :
                  /\ attrs[i].name \in ListKinds
                  /\ \E j \in 1..Len(attrs[i].items) :
                        /\ attrs[i].items[j] \in Recognized(attrs[i].name)
                        /\ t = Impl(MarkerOf(attrs[i].name, attrs[i].items[j]), ident)

C3_Witness ==
    /\ pc = "done"
    /\ \E i \in 1..Len(attrs) :
          /\ attrs[i].name = "implement"
          /\ attrs[i].items = <<"Foo", "Display">>
    /\ out = <<CompileError("Don't know how to implement: Foo")>>

(***************************************************************************)
(* C4: a declaration without #[permissive] that writes each kind of list   *)
(* at most once, with recognized names only, expands to one grant per      *)
(* named item and nothing else; every grant is for the declared tag, and   *)
(* the marker is ImplementX for implement(X), TransparentX for             *)
(* transparent(X), and InnerAccess, FromInner, ValueMap, Cloned, AsRef for *)
(* the five capability names.                                              *)
(***************************************************************************)
C4_OneGrantPerItem ==
    (pc = "done" /\ ~HasAttr("permissive") /\ OneListPerKind /\ AllRecognized) =>
        /\ Len(out) = TotalItems
        /\ \A t \in Range(out) : t.kind = "impl" /\ t.ty = ident
        /\ \A i \in 1..Len(attrs) :
              attrs[i].name \in ListKinds =>
                  \A v \in Recognized(attrs[i].name) :
                      Count(out, Impl(MarkerOf(attrs[i].name, v), ident))
                          = Count(attrs[i].items, v)

C4_Witness ==
    /\ pc = "done"
    /\ ~HasAttr("permissive")
    /\ OneListPerKind
    /\ AllRecognized
    /\ \E i, j \in 1..Len(attrs) :
          /\ attrs[i].name = "implement" /\ attrs[i].items = <<"Clone">>
          /\ attrs[j].name = "capability" /\ attrs[j].items = <<"inner_access">>
    /\ Range(out) = {Impl("ImplementClone", ident), Impl("InnerAccess", ident)}

(***************************************************************************)
(* C10, as claimed: on a declaration without #[permissive] that writes     *)
(* each kind of list at most once, every recognized entry gets its grant,  *)
(* wherever an unrecognized name stands.                                   *)
(***************************************************************************)
C10_EveryRecognizedEntryGranted ==
    (pc = "done" /\ ~HasAttr("permissive") /\ OneListPerKind) =>
        \A i \in 1..Len(attrs) :
            attrs[i].name \in ListKinds =>
                \A j \in 1..Len(attrs[i].items) :
                    attrs[i].items[j] \in Recognized(attrs[i].name) =>
                        Impl(MarkerOf(attrs[i].name, attrs[i].items[j]), ident) \in Grants

(***************************************************************************)
(* C10, amended: an unrecognized name ends the processing of its own list  *)
(* only.  On a declaration without #[permissive] that writes each kind of  *)
(* list at most once, a recognized entry gets its grant exactly when no    *)
(* unrecognized name stands before it in the same list: entries behind the *)
(* first unrecognized name of their list get none, and the other lists are *)
(* not affected.                                                           *)
(***************************************************************************)
C10_EntriesBeforeUnknownGranted ==
    (pc = "done" /\ ~HasAttr("permissive") /\ OneListPerKind) =>
        \A i \in 1..Len(attrs) :
            attrs[i].name \in ListKinds =>
                LET a == attrs[i]
                    f == FirstUnrecognized(a)
                IN  \A v \in Recognized(a.name) :
                        Count(out, Impl(MarkerOf(a.name, v), ident))
                            = Cardinality({j \in 1..(f - 1) : a.items[j] = v})

C10_Witness ==
    /\ pc = "done"
    /\ \E i \in 1..Len(attrs) :
          /\ attrs[i].name = "transparent"
          /\ attrs[i].items = <<"Foo", "Display">>
    /\ out = <<CompileError("Don't know how to make Foo transparent")>>

(***************************************************************************)
(* Vocabulary of the claims about the gating of TaggedType.                *)
(***************************************************************************)
\* The behaviours of the catalogue: everything but the constructor.
CatalogueBehaviours == Behaviours \ {"new"}

\* The behaviours of TaggedType<v, Tag> for a tag that has an impl of every
\* marker of the catalogue written out.
ExplicitAvail(v) == {b \in Behaviours : Available(b, v, CatalogueMarkers)}

(***************************************************************************)
(* C1: on a tag whose only impl is Permissive, every behaviour of the      *)
(* catalogue is available on TaggedType<V, T> exactly when it is available *)
(* on a tag that has every marker of the catalogue implemented one by one. *)
(***************************************************************************)
C1_PermissiveAsExplicit ==
    (gpc = "resolved" /\ granted = {"Permissive"}) =>
        \A b \in CatalogueBehaviours : b \in avail <=> b \in ExplicitAvail(vtype)

(***************************************************************************)
(* C5: new is available on every tag, whatever it carries; inner and       *)
(* into_inner are available exactly on the tags that carry InnerAccess,    *)
(* implemented directly or through Permissive.                             *)
(***************************************************************************)
C5_NewAlwaysInnerGated ==
    gpc = "resolved" =>
        /\ "new" \in avail
        /\ "inner" \in avail <=> ("InnerAccess" \in granted \/ "Permissive" \in granted)
        /\ "into_inner" \in avail <=> ("InnerAccess" \in granted \/ "Permissive" \in granted)

C5_Witness ==
    /\ gpc = "resolved"
    /\ granted = {"ValueMap", "ImplementClone"}
    /\ "new" \in avail
    /\ "inner" \notin avail
    /\ "into_inner" \notin avail

(***************************************************************************)
(* C6: TaggedType<V, T> is Ord exactly when V is Ord and T carries the     *)
(* four markers ImplementOrd, ImplementPartialOrd, ImplementEq and         *)
(* ImplementPartialEq; ImplementOrd with one of the other three missing    *)
(* does not give Ord.                                                      *)
(***************************************************************************)
C6_OrdNeedsFourMarkers ==
    gpc = "resolved" =>
        ("Ord" \in avail <=>
            /\ "Ord" \in ValueTraits(vtype)
            /\ {"ImplementOrd", "ImplementPartialOrd", "ImplementEq", "ImplementPartialEq"}
                  \subseteq Carries(granted))

C6_Witness ==
    /\ gpc = "resolved"
    /\ granted = {"ImplementOrd", "ImplementPartialOrd", "ImplementEq", "ImplementPartialEq"}
    /\ vtype = "u64"
    /\ "Ord" \in avail

(***************************************************************************)
(* C7: Eq, PartialOrd and Copy are each available on TaggedType<V, T>      *)
(* exactly when V has the trait and T carries the direct marker and its    *)
(* prerequisite: ImplementEq with ImplementPartialEq, ImplementPartialOrd  *)
(* with ImplementPartialEq, ImplementCopy with ImplementClone.             *)
(***************************************************************************)
C7_DirectMarkerAndPrerequisite ==
    gpc = "resolved" =>
        /\ "Eq" \in avail <=>
              /\ "Eq" \in ValueTraits(vtype)
              /\ {"ImplementEq", "ImplementPartialEq"} \subseteq Carries(granted)
        /\ "PartialOrd" \in avail <=>
              /\ "PartialOrd" \in ValueTraits(vtype)
              /\ {"ImplementPartialOrd", "ImplementPartialEq"} \subseteq Carries(granted)
        /\ "Copy" \in avail <=>
              /\ "Copy" \in ValueTraits(vtype)
              /\ {"ImplementCopy", "ImplementClone"} \subseteq Carries(granted)

C7_Witness ==
    /\ gpc = "resolved"
    /\ granted = {"ImplementCopy", "ImplementEq", "ImplementPartialOrd"}
    /\ vtype = "u64"
    /\ avail \cap {"Copy", "Eq", "PartialOrd"} = {}

(***************************************************************************)
(* C8, as claimed: map and try_map are available only on a tag that        *)
(* carries ValueMap together with InnerAccess.                             *)
(***************************************************************************)
C8_MapNeedsInnerAccess ==
    gpc = "resolved" =>
        \A b \in {"map", "try_map"} :
            b \in avail => {"ValueMap", "InnerAccess"} \subseteq Carries(granted)

(***************************************************************************)
(* C8, amended: map and try_map are available exactly on the tags that     *)
(* carry ValueMap; InnerAccess is not asked for.                           *)
(***************************************************************************)
C8_MapNeedsValueMapOnly ==
    gpc = "resolved" =>
        \A b \in {"map", "try_map"} : b \in avail <=> "ValueMap" \in Carries(granted)

C8_Witness ==
    /\ gpc = "resolved"
    /\ granted = {"ValueMap"}
    /\ {"map", "try_map"} \subseteq avail
    /\ "inner" \notin avail

(***************************************************************************)
(* C9: every operation that takes a wrapper and returns one (clone, copy   *)
(* or move, map, try_map, cloned, as_ref, add, sub, mul, div) returns it   *)
(* with the tag of its receiver; a comparison takes two wrappers of the    *)
(* same tag only, and a place typed with a tag takes wrappers of that tag  *)
(* only.  So only the constructors, which take no wrapper (new, default,   *)
(* from_str, deserialize), give a value a tag.                             *)
(***************************************************************************)
C9_TagPreserved ==
    /\ (last.op \in {"clone", "copy", "move", "map", "try_map", "cloned", "as_ref",
                     "Add", "Sub", "Mul", "Div"} /\ last.res # "-")
          => last.res = last.recv
    /\ last.op \in CmpOps => last.rhs = last.recv
    /\ last.op = "pass" => last.res = last.recv
    /\ (last.recv # "-" /\ last.res # "-") => last.res = last.recv

C9_Witness ==
    /\ Has(1)
    /\ Has(2)
    /\ ws[1].tag = "HostTag"
    /\ ws[2].tag = "PortTag"
    /\ ws[1].v = ws[2].v
    /\ last.op = "map"
    /\ last.recv = last.res

(***************************************************************************)
(* Vocabulary of the claims about repeated names and the order of the      *)
(* attributes.                                                             *)
(***************************************************************************)
\* The list l with every name kept at its first place only.
RECURSIVE DedupItems(_)
DedupItems(l) ==
    IF l = <<>>
    THEN <<>>
    ELSE LET front == DedupItems(SubSeq(l, 1, Len(l) - 1))
             x     == l[Len(l)]
         IN  IF \E i \in 1..(Len(l) - 1) : l[i] = x THEN front ELSE Append(front, x)

\* The declaration with every name written once in its list.
Dedup(as) == [i \in 1..Len(as) |-> Attr(as[i].name, DedupItems(as[i].items))]

\* The places of a list, before its first unrecognized name, that repeat a
\* name written earlier in the list.
RepeatedPlaces(a) ==
    {j \in 1..(FirstUnrecognized(a) - 1) : \E h \in 1..(j - 1) : a.items[h] = a.items[j]}

Repeats ==
    LET RECURSIVE Sum(_)
        Sum(i) == IF i = 0 THEN 0
                  ELSE Sum(i - 1) +
                       (IF attrs[i].name \in ListKinds
                        THEN Cardinality(RepeatedPlaces(attrs[i])) ELSE 0)
    IN  Sum(Len(attrs))

IsGrant(t) == t.kind = "impl"

\* The declarations with the same attributes in another order.
Reorderings(as) ==
    {[i \in 1..Len(as) |-> as[p[i]]] :
        p \in {q \in [1..Len(as) -> 1..Len(as)] :
                  \A i, j \in 1..Len(as) : q[i] = q[j] => i = j}}

(***************************************************************************)
(* C11, as claimed: on a declaration without #[permissive] that writes     *)
(* each kind of list at most once, a name written more than once in a list *)
(* changes nothing: the grants emitted are the grants of the declaration   *)
(* with every name written once.                                           *)
(***************************************************************************)
C11_RepeatedNameIsNoOp ==
    (pc = "done" /\ ~HasAttr("permissive") /\ OneListPerKind) =>
        SelectSeq(out, IsGrant) = SelectSeq(derive_tag(Dedup(attrs), ident), IsGrant)

(***************************************************************************)
(* C11, amended: on a declaration without #[permissive] that writes each   *)
(* kind of list at most once, the set of distinct grants and errors is the *)
(* one of the declaration with every name written once, but the output     *)
(* holds one grant per occurrence: each repetition of a recognized name,   *)
(* before the first unrecognized name of its list, adds one more copy of   *)
(* the same impl item to the output.                                       *)
(***************************************************************************)
C11_RepeatedNameGrantedAgain ==
    (pc = "done" /\ ~HasAttr("permissive") /\ OneListPerKind) =>
        LET once == derive_tag(Dedup(attrs), ident)
        IN  /\ Range(out) = Range(once)
            /\ Len(out) = Len(once) + Repeats
            /\ \A i \in 1..Len(attrs) :
                  attrs[i].name \in ListKinds =>
                      \A j \in RepeatedPlaces(attrs[i]) :
                          Count(out, Impl(MarkerOf(attrs[i].name, attrs[i].items[j]), ident))
                              = Count(SubSeq(attrs[i].items, 1,
                                             FirstUnrecognized(attrs[i]) - 1),
                                      attrs[i].items[j])

C11_Witness ==
    /\ pc = "done"
    /\ attrs = <<Attr("implement", <<"Clone", "Clone">>)>>
    /\ out = <<Impl("ImplementClone", ident), Impl("ImplementClone", ident)>>

(***************************************************************************)
(* C12: on a declaration that writes each kind of list at most once, the   *)
(* output of derive_tag is the one derive_tag computes from the            *)
(* attributes, and the set of its grants and errors is the same for every  *)
(* order in which the same attributes can be written.                      *)
(***************************************************************************)
C12_AttributeOrderIrrelevant ==
    (pc = "done" /\ OneListPerKind) =>
        /\ out = derive_tag(attrs, ident)
        /\ \A p \in Reorderings(attrs) : Range(derive_tag(p, ident)) = Range(out)

C12_Witness ==
    /\ pc = "done"
    /\ attrs = <<Attr("transparent", <<"Display">>), Attr("capability", <<"inner_access">>)>>
    /\ out = <<Impl("InnerAccess", ident), Impl("TransparentDisplay", ident)>>

(***************************************************************************)
(* C13: a declaration that carries one #[permissive], no implement,        *)
(* transparent or capability attribute, and any attributes that are not    *)
(* declaration blocks (a doc comment) expands to the one grant Permissive  *)
(* for the tag and to no error.                                            *)
(***************************************************************************)
C13_PermissiveWithOtherAttributes ==
    (pc = "done" /\ Count([i \in 1..Len(attrs) |-> attrs[i].name], "permissive") = 1
                 /\ ~HasListAttr) =>
        out = <<Impl("Permissive", ident)>>

(***************************************************************************)
(* C14, as claimed: every marker that a tag with an impl of Permissive     *)
(* carries without an impl of its own is a marker of the catalogue.        *)
(***************************************************************************)
C14_PermissiveGivesCatalogueOnly ==
    (gpc = "resolved" /\ "Permissive" \in granted) =>
        Carries(granted) \ granted \subseteq CatalogueMarkers

(***************************************************************************)
(* C14, amended: every marker that a tag with an impl of Permissive        *)
(* carries without an impl of its own is a marker of the catalogue or      *)
(* TransparentFromInner, the former name of FromInner; the tag carries     *)
(* FromInner along with it, and TransparentFromInner opens no behaviour of *)
(* TaggedType that the markers of the catalogue do not open.               *)
(***************************************************************************)
C14_PermissiveGivesCatalogueAndAlias ==
    (gpc = "resolved" /\ "Permissive" \in granted) =>
        /\ Carries(granted) \ granted \subseteq CatalogueMarkers \cup {"TransparentFromInner"}
        /\ "TransparentFromInner" \in Carries(granted)
        /\ "FromInner" \in Carries(granted)
        /\ avail = {b \in Behaviours :
                       Available(b, vtype, Carries(granted) \cap CatalogueMarkers)}

C14_Witness ==
    /\ gpc = "resolved"
    /\ granted = {"Permissive"}
    /\ "TransparentFromInner" \in Carries(granted)
    /\ "From" \in avail

(***************************************************************************)
(* C15: when a wrapper that new has just built from v is asked for its     *)
(* value, the tag carrying InnerAccess, into_inner returns v itself and    *)
(* inner returns a reference to a value equal to v.                        *)
(***************************************************************************)
C15_NewThenInnerRoundTrip ==
    [][(/\ last.op = "new"
        /\ last'.op \in {"into_inner", "inner"}
        /\ last'.src = last.dst)
          => /\ "InnerAccess" \in Carries(tagImpls[last.res])
             /\ last'.arg = last.ret
             /\ last'.op = "into_inner" => last'.ret = last.arg
             /\ last'.op = "inner" =>
                   (/\ last'.ret.ref = last.arg.ref + 1
                    /\ last'.ret.val = last.arg.val
                    /\ ws' = ws)]_vars

C15_Witness ==
    /\ last.op = "into_inner"
    /\ tagImpls["HostTag"] = {"Permissive"}
    /\ last.arg = new(Owned(3), "HostTag")
    /\ last.ret = Owned(3)

(***************************************************************************)
(* C16: default() is there for a tag that carries ImplementDefault,        *)
(* whether the impl was written by hand, by #[implement(Default)] or       *)
(* through Permissive, and the wrapper it returns holds V::default(): its  *)
(* value taken out is V::default().                                        *)
(***************************************************************************)
C16_DefaultHoldsValueDefault ==
    last.op = "default" =>
        /\ "ImplementDefault" \in Carries(tagImpls[last.res])
        /\ last.ret.tag = last.res
        /\ into_inner(last.ret) = V_default
        /\ ws[last.dst] = last.ret

C16_Witness ==
    /\ last.op = "default"
    /\ tagImpls[last.res] = DerivedMarkers
    /\ "ImplementDefault" \in DerivedMarkers
    /\ ws[last.dst].v = Owned(0)

(***************************************************************************)
(* C17: on a tag that carries the clone and partial-equality markers,      *)
(* clone returns a wrapper equal to its receiver and the receiver's        *)
(* binding holds what it held; on a tag that carries the copy marker too,  *)
(* with V: Copy, after a binding by value the original binding still holds *)
(* its wrapper, and the two are equal.                                     *)
(***************************************************************************)
C17_DuplicationPreservesValue ==
    /\ (last.op = "clone" /\ Usable("PartialEq", last.arg)) =>
          /\ compare("PartialEq", last.ret, last.arg)
          /\ last.ret.tag = last.arg.tag
          /\ ws[last.src] = last.arg
          /\ ws[last.dst] = last.ret
    /\ (last.op \in {"copy", "move"} /\ Usable("Copy", last.arg)) =>
          /\ last.op = "copy"
          /\ Has(last.src)
          /\ ws[last.src] = last.arg
          /\ Has(last.dst)
          /\ compare("PartialEq", ws[last.dst], ws[last.src])

C17_Witness ==
    /\ last.op = "clone"
    /\ last.src = 1
    /\ last.dst = 2
    /\ ws[1] = new(Owned(2), "PortTag")
    /\ ws[2] = ws[1]

(***************************************************************************)
(* C18: parsing a text as TaggedType<V, T>, T carrying TransparentFromStr: *)
(* when V's parser accepts the text with value x, the result is Ok of a    *)
(* wrapper of tag T whose value is x; when V's parser rejects it with      *)
(* error e, the result is Err(e), V's own error, and holds no wrapper.     *)
(***************************************************************************)
C18_FromStrAsValue ==
    last.op = "from_str" =>
        LET r == V_from_str(last.arg)
        IN  IF r.ok
            THEN /\ last.ret.ok
                 /\ into_inner(last.ret.w) = r.val
                 /\ last.ret.w.tag = last.res
                 /\ "TransparentFromStr" \in Carries(tagImpls[last.res])
                 /\ ws[last.dst] = last.ret.w
            ELSE /\ ~last.ret.ok
                 /\ last.ret.err = r.err
                 /\ DOMAIN last.ret = {"ok", "err"}
                 /\ last.res = "-"

C18_Witness ==
    /\ last.op = "from_str"
    /\ last.arg = <<"+", "9">>
    /\ last.ret = [ok |-> FALSE, err |-> "PosOverflow"]
    /\ ws[1] = None

(***************************************************************************)
(* C19: formatting a wrapper with Display or Debug, the tag carrying       *)
(* TransparentDisplay or TransparentDebug, gives character for character   *)
(* the text that V's Display or Debug gives for the value under the same   *)
(* formatter options, and leaves the wrapper as it is.                     *)
(***************************************************************************)
C19_FormatAsValue ==
    last.op \in FmtTraits =>
        /\ "Transparent" \o last.op \in Carries(tagImpls[last.recv])
        /\ last.ret = V_fmt(last.op, into_inner(last.arg.w).val, last.arg.f)
        /\ ws[last.src] = last.arg.w

C19_Witness ==
    /\ last.op = "Debug"
    /\ last.arg.w = new(Owned(3), "HostTag")
    /\ last.arg.f = FormatSpec(4, FALSE, TRUE, TRUE, "X")
    /\ last.ret = <<"0", "x", "0", "3">>

(***************************************************************************)
(* C20: on a tag that carries TransparentSerialize and                     *)
(* TransparentDeserialize, the serialized form of a wrapper is the         *)
(* serialized form of its value; deserializing gives Ok of a wrapper of    *)
(* the value V decodes, or Err of V's own error; and deserializing the     *)
(* text that serializing a wrapper has just given returns that wrapper.    *)
(***************************************************************************)
C20_SerdeAsValue ==
    /\ [](last.op = "serialize" =>
             /\ "TransparentSerialize" \in Carries(tagImpls[last.recv])
             /\ last.ret = V_serialize(last.arg.v.val))
    /\ [](last.op = "deserialize" =>
             LET r == V_deserialize(last.arg)
             IN  IF r.ok
                 THEN /\ last.ret.ok
                      /\ last.ret.w.v = r.val
                      /\ last.ret.w.tag = last.res
                      /\ "TransparentDeserialize" \in Carries(tagImpls[last.res])
                 ELSE last.ret = [ok |-> FALSE, err |-> r.err])
    /\ [][(/\ last.op = "serialize"
           /\ last'.op = "deserialize"
           /\ last'.arg = last.ret)
             => /\ last'.ret.ok
                /\ last'.ret.w.tag = last.recv => last'.ret.w = last.arg]_vars

C20_Witness ==
    /\ last.op = "deserialize"
    /\ last.arg = <<"3">>
    /\ last.ret.ok
    /\ ws[1] = new(Owned(3), "PortTag")
    /\ tagImpls["PortTag"] = {"Permissive"}

(***************************************************************************)
(* C21: for a tag carrying ValueMap, new(v).map(f) is the wrapper of f(v)  *)
(* with the same tag; new(v).try_map(f) is Ok of the wrapper of u with the *)
(* same tag when f(v) = Ok(u), and is Err(e) with e as f returned it when  *)
(* f(v) = Err(e), and then no wrapper is produced: the result holds none   *)
(* and the binding of the receiver holds what using it by value left, the  *)
(* receiver if it is Copy, nothing otherwise.  f is called exactly once,   *)
(* with v.                                                                 *)
(***************************************************************************)
C21_MapAndTryMap ==
    /\ last.op = "map" =>
          /\ "ValueMap" \in Carries(tagImpls[last.arg.w.tag])
          /\ last.ret.out.v = Apply(last.arg.f, last.arg.w.v)
          /\ last.ret.out.tag = last.arg.w.tag
          /\ ws[last.dst] = last.ret.out
          /\ last.ret.calls = <<last.arg.w.v>>
    /\ last.op = "try_map" =>
          /\ "ValueMap" \in Carries(tagImpls[last.arg.w.tag])
          /\ last.ret.calls = <<last.arg.w.v>>
          /\ LET r == ApplyTry(last.arg.f, last.arg.w.v)
             IN  IF r.ok
                 THEN /\ last.ret.out.ok
                      /\ last.ret.out.w.v = r.val
                      /\ last.ret.out.w.tag = last.arg.w.tag
                      /\ ws[last.dst] = last.ret.out.w
                 ELSE /\ ~last.ret.out.ok
                      /\ last.ret.out.err = r.err
                      /\ DOMAIN last.ret.out = {"ok", "err"}
                      /\ ws[last.dst] = AfterUse(last.arg.w)

\* try_map on a wrapper of 0 with checked_pred: f fails and the error comes
\* back, on a tag that carries ValueMap.
C21_Witness ==
    /\ last.op = "try_map"
    /\ last.arg.w.v = Owned(0)
    /\ ~last.ret.out.ok
    /\ last.ret.out.err = "underflow"

(***************************************************************************)
(* C22: comparison and hashing only forward to V.  For wrappers a = new(x) *)
(* and b = new(y) of the same tag, a == b is x == y, a.partial_cmp(b) is   *)
(* x.partial_cmp(y), a.cmp(b) is x.cmp(y), and hashing a writes to the     *)
(* hasher what hashing x writes.  Hence two equal wrappers hash alike, and *)
(* partial_cmp is Some of cmp, as V's are.                                 *)
(***************************************************************************)
C22_CompareAndHashForward ==
    /\ last.op \in CmpOps =>
          /\ last.arg.a.tag = last.arg.b.tag
          /\ LET x == last.arg.a.v.val
                 y == last.arg.b.v.val
             IN  /\ last.op = "PartialEq"  => last.ret = V_eq(x, y)
                 /\ last.op = "PartialOrd" => last.ret = V_partial_cmp(x, y)
                 /\ last.op = "Ord"        => last.ret = V_cmp(x, y)
    /\ last.op = "hash" =>
          last.ret = V_hash(last.arg.w.v.val, last.arg.h)
    /\ \A i, j \in Slots :
          (Has(i) /\ Has(j) /\ Accepts(TypeOf(ws[i]), ws[j])) =>
              /\ (Usable("PartialEq", ws[i]) /\ Usable("Hash", ws[i])
                     /\ compare("PartialEq", ws[i], ws[j]))
                    => \A h \in HasherStates : hash(ws[i], h) = hash(ws[j], h)
              /\ Usable("Ord", ws[i])
                    => compare("PartialOrd", ws[i], ws[j]) = [some |-> compare("Ord", ws[i], ws[j])]

\* Two wrappers of one tag holding different values were compared with cmp
\* and the answer was Less.
C22_Witness ==
    /\ last.op = "Ord"
    /\ last.arg.a.v.val < last.arg.b.v.val
    /\ last.ret = "Less"
    /\ \A i \in Slots : Has(i) /\ Usable("Hash", ws[i])

(***************************************************************************)
(* C23: for a tag carrying the add, sub, mul or div marker, new(a) op r is *)
(* a wrapper with the same tag whose value is a op r as V's own operator   *)
(* computes it, overflow and division by zero included: where V's operator *)
(* panics no wrapper is returned and the binding of the receiver holds     *)
(* what using it by value left, where it wraps the wrapper holds the       *)
(* wrapped value.  The right operand is a bare value, never a wrapper.     *)
(***************************************************************************)
C23_ArithmeticAsValue ==
    last.op \in ArithOps \cup {"panic"} =>
        LET a    == last.arg.w
            r    == last.arg.r
            outs == V_op(last.arg.op, a.v.val, r.val)
        IN  /\ ("Implement" \o last.arg.op) \in Carries(tagImpls[a.tag])
            /\ r \in {Owned(n) : n \in Values}
            /\ IF last.ret = Panic
               THEN /\ Panic \in outs
                    /\ ws[last.dst] = AfterUse(a)
               ELSE /\ last.ret.tag = a.tag
                    /\ last.ret.v \in outs
                    /\ ws[last.dst] = last.ret

\* A division by zero, which panics, while the other binding holds a wrapper
\* that the operator would not take as right operand.
C23_Witness ==
    /\ last.op = "panic"
    /\ last.arg.op = "Div"
    /\ last.arg.r = Owned(0)
    /\ last.ret = Panic
    /\ \E j \in Slots : Has(j) /\ ~V_accepts_rhs(ws[j])

(***************************************************************************)
(* C24: prerequisite closure.  Whatever markers a tag was given, the       *)
(* behaviours of TaggedType<V, T> are closed under prerequisites: Eq comes *)
(* with PartialEq, PartialOrd with PartialEq, Ord with Eq and PartialOrd,  *)
(* Copy with Clone.                                                        *)
(***************************************************************************)
C24_PrerequisiteClosure ==
    gpc = "resolved" =>
        /\ "Eq" \in avail => "PartialEq" \in avail
        /\ "PartialOrd" \in avail => "PartialEq" \in avail
        /\ "Ord" \in avail => {"Eq", "PartialOrd"} \subseteq avail
        /\ "Copy" \in avail => "Clone" \in avail

\* ImplementOrd and ImplementCopy without their prerequisites next to a
\* complete Eq: Eq and PartialEq are there, Ord, PartialOrd, Copy and Clone
\* are not.
C24_Witness ==
    /\ gpc = "resolved"
    /\ vtype = "u64"
    /\ granted = {"ImplementOrd", "ImplementEq", "ImplementPartialEq", "ImplementCopy"}
    /\ avail \cap {"Eq", "PartialEq", "Ord", "PartialOrd", "Copy", "Clone"}
          = {"Eq", "PartialEq"}

(***************************************************************************)
(* C25: when a tag carries two attributes of the same kind, the names of   *)
(* both are looked up, those of the second as those of the first: every    *)
(* attribute of a list kind has the grant of each name up to its first     *)
(* unrecognized one in the output, and the error of that unrecognized      *)
(* name.                                                                   *)
(***************************************************************************)
C25_EveryAttributeLookedUp ==
    (pc = "done" /\ ~HasAttr("permissive")) =>
        \A i \in 1..Len(attrs) :
            attrs[i].name \in ListKinds =>
                LET a == attrs[i]
                    f == FirstUnrecognized(a)
                IN  /\ \A j \in 1..(f - 1) :
                          Impl(MarkerOf(a.name, a.items[j]), ident) \in Range(out)
                    /\ f <= Len(a.items) =>
                          UnknownNameError(a.name, a.items[f]) \in Range(out)

\* The name v of another list, written in a list of kind k.
Misplaced(k, v) ==
    /\ v \notin Recognized(k)
    /\ \E k2 \in ListKinds \ {k} : v \in Recognized(k2)

(***************************************************************************)
(* C26: the three lists recognize pairwise disjoint sets of names, and a   *)
(* name is accepted only in its own list.  Every grant of the output is    *)
(* the marker of a name written in the list that recognizes it; and where  *)
(* a list meets a name of another list (as the first name it does not      *)
(* recognize, on a declaration writing each kind once), the output has     *)
(* that list's unknown-name error naming it, once, and nothing of that     *)
(* list after it.                                                          *)
(***************************************************************************)
C26_NamesOnlyInOwnList ==
    /\ ImplementNames \cap TransparentNames = {}
    /\ ImplementNames \cap CapabilityNames = {}
    /\ TransparentNames \cap CapabilityNames = {}
    /\ (pc = "done" /\ ~HasAttr("permissive")) =>
          \A t \in Grants :
              \E i \in 1..Len(attrs) :
                  /\ attrs[i].name \in ListKinds
                  /\ \E j \in 1..Len(attrs[i].items) :
                        /\ attrs[i].items[j] \in Recognized(attrs[i].name)
                        /\ t = Impl(MarkerOf(attrs[i].name, attrs[i].items[j]), ident)
    /\ (pc = "done" /\ ~HasAttr("permissive") /\ OneListPerKind) =>
          \A i \in 1..Len(attrs) :
              attrs[i].name \in ListKinds =>
                  LET a == attrs[i]
                      f == FirstUnrecognized(a)
                  IN  (f <= Len(a.items) /\ Misplaced(a.name, a.items[f])) =>
                          /\ Count(out, UnknownNameError(a.name, a.items[f])) = 1
                          /\ \A k2 \in ListKinds \ {a.name} :
                                (a.items[f] \in Recognized(k2) /\ ~HasAttr(k2)) =>
                                    Impl(MarkerOf(k2, a.items[f]), ident) \notin Range(out)

\* transparent(Display, Clone): Display is granted, Clone is refused in the
\* wording of the transparent list and gets no ImplementClone.
C26_Witness ==
    /\ pc = "done"
    /\ attrs = <<Attr("transparent", <<"Display", "Clone">>)>>
    /\ out = <<Impl("TransparentDisplay", ident),
               CompileError("Don't know how to make Clone transparent")>>

(***************************************************************************)
(* C27: for a tag carrying AsRef and Cloned, w.as_ref().cloned() is a      *)
(* wrapper of the type of w, owning a value as w does, with the tag of w   *)
(* and a value equal to the value of w, holding no reference into w, and   *)
(* w is left as it was: as_ref leaves w in its binding, and so does cloned *)
(* called on the result of as_ref.  The result of as_ref borrows w: it     *)
(* points into the binding of w, or, bound to the name of w itself, into   *)
(* the wrapper that name stood for, which it reads as w was.               *)
(***************************************************************************)
C27_AsRefClonedGivesOwnedCopy ==
    /\ [](last.op = "as_ref" =>
            /\ {"AsRef"} \subseteq Carries(tagImpls[last.arg.tag])
            /\ last.ret.v.ref = last.arg.v.ref + 1
            /\ ws[last.dst] = as_ref(last.arg)
            /\ refs[last.dst][1] = (IF last.dst = last.src THEN 0 ELSE last.src)
            /\ last.dst # last.src => ws[last.src] = last.arg
            /\ Usable("as_ref", ws[last.src]))
    /\ [][(last.op = "as_ref" /\ last'.op = "cloned" /\ last'.src = last.dst) =>
            /\ last'.arg = last.ret
            /\ {"AsRef", "Cloned"} \subseteq Carries(tagImpls[last.arg.tag])
            /\ last'.ret.v.ref = last.arg.v.ref
            /\ last'.ret.tag = last.arg.tag
            /\ last'.ret.v.val = last.arg.v.val
            /\ ws'[last'.dst] = last'.ret
            /\ \A k \in 1..Len(refs'[last'.dst]) : refs'[last'.dst][k] # last.src
            /\ last.dst # last.src =>
                  /\ ws'[last.src] = last.arg
                  /\ Usable("as_ref", ws'[last.src])]_vars

\* cloned was called on the reference wrapper that as_ref made of a wrapper
\* of a value other than zero, into the binding of the reference; the first
\* wrapper is in its binding next to its copy.
C27_Witness ==
    /\ last.op = "cloned"
    /\ last.arg.v.ref = 1
    /\ last.arg.v.val # 0
    /\ last.src = last.dst
    /\ \A i \in Slots : Has(i) /\ ws[i] = last.ret /\ Usable("as_ref", ws[i])

\* The non-consuming accessors, the binding a call is about, and the value
\* a call was given (new) or gave back (the accessors, into_inner).
Accessors == {"inner", "deref", "as_ref"}

BindingOf(l) == IF l.op = "new" THEN l.dst ELSE l.src

ValueIn(l) ==
    CASE l.op = "new"    -> l.arg.val
      [] l.op = "as_ref" -> l.ret.v.val
      [] OTHER           -> l.ret.val

(***************************************************************************)
(* C28: inner(), deref() and as_ref() expose the value that was given to   *)
(* new and leave the wrapper unchanged.  Each accessor gives a reference   *)
(* to the value of its receiver and the receiver stays in its binding as   *)
(* it was (when the result of as_ref is bound to the name of the receiver, *)
(* that name holds the reference to the receiver as it was); and along new *)
(* followed by accessors in any order, each call gives the value the call  *)
(* before it on that binding gave or was given, into_inner at the end      *)
(* included.                                                               *)
(***************************************************************************)
C28_AccessorsLeaveWrapperUnchanged ==
    /\ [](last.op \in Accessors =>
            /\ ValueIn(last) = last.arg.v.val
            /\ ws[last.src] = (IF last.dst = last.src THEN as_ref(last.arg) ELSE last.arg))
    /\ [][last'.op \in Accessors =>
            ws'[last'.src] = (IF last'.dst = last'.src THEN as_ref(ws[last'.src])
                                                      ELSE ws[last'.src])]_vars
    /\ [][(/\ last.op \in Accessors \cup {"new"}
           /\ last'.op \in Accessors \cup {"into_inner"}
           /\ BindingOf(last') = BindingOf(last))
             => ValueIn(last') = ValueIn(last)]_vars

\* deref was called on a wrapper of a value other than zero whose as_ref
\* sits in the other binding, on a tag that also has inner and into_inner.
C28_Witness ==
    /\ last.op = "deref"
    /\ last.ret = RefTo(last.arg.v)
    /\ last.arg.v.val # 0
    /\ ws[last.src] = last.arg
    /\ \E j \in Slots : j # last.src /\ ws[j] = as_ref(last.arg) /\ refs[j] = <<last.src>>
    /\ Usable("inner", last.arg) /\ Usable("into_inner", last.arg)

\* The marker that gates a behaviour in the gating table.
SnapshotMarkerOf(b) ==
    CASE b \in {"inner", "into_inner"} -> "InnerAccess"
      [] b = "Deref"     -> "ImplementDeref"
      [] b = "Clone"     -> "ImplementClone"
      [] b = "Copy"      -> "ImplementCopy"
      [] b = "Hash"      -> "ImplementHash"
      [] b = "PartialEq" -> "ImplementPartialEq"
      [] b = "Eq"        -> "ImplementEq"
      [] b = "Default"   -> "ImplementDefault"

(***************************************************************************)
(* C29: in the wrapper of src/src/tagged_type.rs, inner, into_inner,       *)
(* Deref, Clone, Copy, Hash, PartialEq, Eq and Default are each available  *)
(* on TaggedType<V, T> only if T carries the marker of the behaviour.      *)
(***************************************************************************)
C29_SnapshotGated ==
    gpc = "resolved" =>
        \A b \in {"inner", "into_inner", "Deref", "Clone", "Copy", "Hash",
                  "PartialEq", "Eq", "Default"} :
            b \in avail => SnapshotMarkerOf(b) \in SnapshotCarries(granted)

=============================================================================
